---- MODULE Spec2Model ----
(***************************************************************************)
(* The streaming pipeline of the gateway: handleStreamingChat of           *)
(* src/src/chat.ts, which re-frames the newline-delimited JSON frames of   *)
(* the upstream /api/chat response into "data: <json>" chunks on a         *)
(* ReadableStream that the HTTP layer drains towards the client.           *)
(*                                                                         *)
(* One behaviour of the model is one streaming request.  The start()       *)
(* callback runs to completion between its suspension points (the awaits   *)
(* on chatCompletion, response.text() and ollamaReader.read()), so each    *)
(* action is the code from one await to the next.  The consumer reads and  *)
(* cancels between those steps.  The log calls write to disk only and are  *)
(* left out.                                                               *)
(***************************************************************************)
EXTENDS Integers, Naturals, Sequences, FiniteSets, TLC

(***************************************************************************)
(* Bounds of the model.                                                    *)
(***************************************************************************)
\* lines (frames, blank or malformed lines) in one upstream body
MaxLines == 2
\* characters one upstream read delivers at most
MaxReadLen == 5

(***************************************************************************)
(* Upstream bodies.  A body is a sequence of characters.  A frame is the   *)
(* line "{" c d "}" where c is the message content ("_" for none or        *)
(* empty) and d is the completion flag ("T" or "F").                       *)
(***************************************************************************)
NL == "\n"
SP == " "
Contents == {"a", "b"}

EncodeFrame(content, done) ==
    << "{", IF content = "" THEN "_" ELSE content, IF done THEN "T" ELSE "F", "}" >>

FrameLines == { EncodeFrame(c, d) : c \in Contents \cup {""}, d \in BOOLEAN }
\* a frame cut short, which JSON.parse rejects
MalformedLine == << "{", "a" >>
BlankLine == << SP >>
LineKinds == FrameLines \cup {MalformedLine, BlankLine}

RECURSIVE JoinLines(_)
\* every line followed by a newline
JoinLines(ls) ==
    IF ls = << >> THEN << >> ELSE Head(ls) \o << NL >> \o JoinLines(Tail(ls))

\* all bodies of at most MaxLines lines, the last line with or without its newline
Bodies ==
    LET terminated == UNION { { JoinLines(ls) : ls \in [1..n -> LineKinds] } : n \in 0..MaxLines }
    IN  terminated \cup { SubSeq(b, 1, Len(b) - 1) : b \in terminated \ {<< >>} }

(***************************************************************************)
(* String helpers of the read loop.                                        *)
(***************************************************************************)
RECURSIVE Split(_)
\* String.prototype.split('\n'): the pieces between newlines, always at least one
Split(text) ==
    IF \A i \in 1..Len(text) : text[i] # NL THEN << text >>
    ELSE LET k == CHOOSE i \in 1..Len(text) :
                     text[i] = NL /\ \A j \in 1..(i - 1) : text[j] # NL
         IN  << SubSeq(text, 1, k - 1) >> \o Split(SubSeq(text, k + 1, Len(text)))

RECURSIVE Trim(_)
\* String.prototype.trim()
Trim(text) ==
    IF text = << >> THEN text
    ELSE IF Head(text) = SP THEN Trim(Tail(text))
    ELSE IF text[Len(text)] = SP THEN Trim(SubSeq(text, 1, Len(text) - 1))
    ELSE text

\* JSON.parse of one line, with the two fields the pipeline reads
JsonParse(text) ==
    LET t == Trim(text)
    IN  IF /\ Len(t) = 4
           /\ t[1] = "{"
           /\ t[4] = "}"
           /\ t[2] \in Contents \cup {"_"}
           /\ t[3] \in {"T", "F"}
        THEN [ok |-> TRUE, content |-> IF t[2] = "_" THEN "" ELSE t[2], done |-> t[3] = "T"]
        ELSE [ok |-> FALSE, content |-> "", done |-> FALSE]

(***************************************************************************)
(* Outbound chunks.                                                        *)
(***************************************************************************)
PlaceholderText == "Response received from model."
NoBodyMessage == "No response body from Ollama"
StatusMessage == "Ollama request failed: 500"
ConnectMessage == "Local Ollama connection failed: refused"
ReadMessage == "read failed"
TextMessage == "body read failed"
DefaultMessage == "Internal streaming error"

RoleChunk == [delta |-> "role", content |-> "", finish_reason |-> "null"]
ContentChunk(text) == [delta |-> "content", content |-> text, finish_reason |-> "null"]
FinalChunk == [delta |-> "empty", content |-> "", finish_reason |-> "stop"]
\* the line "data: [DONE]", which is no JSON chunk
Sentinel == [delta |-> "sentinel", content |-> "[DONE]", finish_reason |-> "null"]
ErrorChunk(message) == ContentChunk("Error: " \o message)

VARIABLES
    pc,                 \* where start() is suspended: "call", "text", "read", or "done"
    body,               \* the bytes the upstream will send for this request
    pos,                \* how many of them the reads have delivered
    upstream,           \* what the upstream call turned out to be
    readFailed,         \* a read of the upstream body threw
    ollamaReader,       \* "none", "locked" or "released"
    buffer,             \* the partial line carried between reads
    hasFinished,
    hasContentBeenSent,
    controllerClosed,
    queue,              \* chunks enqueued on the outbound stream and not yet read
    closeRequested,     \* controller.close() was called
    outState,           \* "readable" or "closed"
    cancelled,          \* the consumer cancelled the outbound stream
    emitted,            \* every chunk enqueued, in order
    delivered           \* every chunk the consumer read, in order

\* the gateway outside the streaming pipeline: configuration, the request
\* router, the model directory and the non-streaming chat handler
VARIABLES
    REMOTE_MODELS,      \* configuration: the names routed to the remote backend
    OLLAMA_API_KEY,     \* configuration: whether the remote credential is set
    req,                \* the request serve.fetch is handling
    rpc,                \* where serve.fetch is suspended
    calls,              \* the backend calls made for req, in order
    response,           \* the response returned for req
    availableModels,    \* the names the model listing gives to the chat handler
    op,                 \* the model directory operation in progress
    mpc,                \* where that operation is suspended
    localData,          \* what the local backend answered to it
    remoteData,         \* what the remote backend answered to it
    listing,            \* the response of the operation
    chatReq,            \* the non-streaming chat request
    ollamaResponse,     \* what the backend answered to it
    cpc,                \* where handleNonStreamingChat is suspended
    chatResponse,       \* the response it returned
    embedBody,          \* the body of the embeddings request
    epc,                \* where handleEmbeddings is suspended
    embedIndex,         \* the loop variable i of handleEmbeddings
    embedCalls,         \* the indexes generateEmbeddings was called for, in order
    inFlight,           \* the indexes whose call has not been answered yet
    ollamaResults,      \* what the backend answered to each call, in order
    embeddings,         \* the entries pushed so far
    embedResponse,      \* the response handleEmbeddings returned
    openaiMessages,     \* the messages given to convertToOllamaMessages
    tpc,                \* whether the conversion has run
    ollamaMessages,     \* the messages it returned
    streams,            \* the state of each of the concurrent streaming requests
    chatBody,           \* the chat completion request handleChatCompletions is handling
    OLLAMA_STREAM,      \* configuration: whether streaming is passed on to the backend
    backendUp,          \* which backends accept connections
    dpc,                \* where handleChatCompletions is suspended
    listedModels,       \* the ids getOpenAIModels returned to it
    ollamaRequest,      \* the backend request it built
    dispatchCalls,      \* the backend calls made for chatBody, in order
    dispatchResponse    \* the response it returned, with the events of a stream

streamVars == << pc, body, pos, upstream, readFailed, ollamaReader, buffer, hasFinished,
                 hasContentBeenSent, controllerClosed, queue, closeRequested, outState,
                 cancelled, emitted, delivered >>

configVars == << REMOTE_MODELS, OLLAMA_API_KEY >>

routeVars == << req, rpc, calls, response, availableModels >>

directoryVars == << op, mpc, localData, remoteData, listing >>

chatVars == << chatReq, ollamaResponse, cpc, chatResponse >>

embedVars == << embedBody, epc, embedIndex, embedCalls, inFlight, ollamaResults, embeddings,
                embedResponse >>

translateVars == << openaiMessages, tpc, ollamaMessages >>

pairVars == << streams >>

dispatchVars == << chatBody, OLLAMA_STREAM, backendUp, dpc, listedModels, ollamaRequest,
                   dispatchCalls, dispatchResponse >>

gatewayVars == << configVars, routeVars, directoryVars, chatVars, embedVars, translateVars,
                  pairVars, dispatchVars >>

vars == << streamVars, gatewayVars >>

(***************************************************************************)
(* The state start() works on, as one record, and the controller of the    *)
(* outbound stream.                                                        *)
(***************************************************************************)
Locals ==
    [ buffer |-> buffer, hasFinished |-> hasFinished,
      hasContentBeenSent |-> hasContentBeenSent, controllerClosed |-> controllerClosed,
      returned |-> FALSE,
      queue |-> queue, closeRequested |-> closeRequested, outState |-> outState,
      emitted |-> emitted ]

\* controller.enqueue and controller.close throw unless this holds
CanCloseOrEnqueue(s) == s.outState = "readable" /\ ~s.closeRequested

ControllerEnqueue(s, chunk) ==
    [s EXCEPT !.queue = Append(@, chunk), !.emitted = Append(@, chunk)]

ControllerClose(s) ==
    [s EXCEPT !.closeRequested = TRUE,
              !.outState = IF s.queue = << >> THEN "closed" ELSE @]

WriteChunk(s, data) ==
    IF s.controllerClosed THEN s
    ELSE IF CanCloseOrEnqueue(s) THEN ControllerEnqueue(s, data)
    ELSE [s EXCEPT !.controllerClosed = TRUE]

\* a close that sets the flag and leaves the controller open
SafeCloseSkipsClose(s) == [s EXCEPT !.controllerClosed = TRUE]

SafeClose(s) ==
    IF s.controllerClosed THEN s
    ELSE IF CanCloseOrEnqueue(s)
         THEN [ControllerClose(ControllerEnqueue(s, Sentinel)) EXCEPT !.controllerClosed = TRUE]
    ELSE [s EXCEPT !.controllerClosed = TRUE]

\* WriteError without its terminal chunk
WriteErrorNoFinal(s, message) ==
    IF s.controllerClosed THEN s
    ELSE SafeClose(WriteChunk(WriteChunk(s, RoleChunk), ErrorChunk(message)))

WriteError(s, message) ==
    IF s.controllerClosed THEN s
    ELSE SafeClose(WriteChunk(WriteChunk(WriteChunk(s, RoleChunk), ErrorChunk(message)),
                              FinalChunk))

(***************************************************************************)
(* The read loop.                                                          *)
(***************************************************************************)
\* a fallback that writes the placeholder whether or not content was sent
EnsureMinimalResponseAlways(s) ==
    IF ~s.controllerClosed /\ ~s.hasFinished
    THEN LET s1 == IF ~s.controllerClosed
                   THEN [WriteChunk(s, ContentChunk(PlaceholderText))
                            EXCEPT !.hasContentBeenSent = TRUE]
                   ELSE s
         IN  IF ~s1.controllerClosed
             THEN SafeClose([WriteChunk(s1, FinalChunk) EXCEPT !.hasFinished = TRUE])
             ELSE s1
    ELSE s

EnsureMinimalResponse(s) ==
    IF ~s.controllerClosed /\ ~s.hasFinished
    THEN LET s1 == IF ~s.hasContentBeenSent /\ ~s.controllerClosed
                   THEN [WriteChunk(s, ContentChunk(PlaceholderText))
                            EXCEPT !.hasContentBeenSent = TRUE]
                   ELSE s
         IN  IF ~s1.controllerClosed
             THEN SafeClose([WriteChunk(s1, FinalChunk) EXCEPT !.hasFinished = TRUE])
             ELSE s1
    ELSE s

\* if (ollamaData.message?.content && !controllerClosed)
OnContent(s, data) ==
    IF data.content # "" /\ ~s.controllerClosed
    THEN [WriteChunk(s, ContentChunk(data.content)) EXCEPT !.hasContentBeenSent = TRUE]
    ELSE s

\* OnDone that writes the terminal chunk and goes on with the next line
OnDoneKeepsGoing(s, data) ==
    IF data.done /\ ~s.controllerClosed THEN WriteChunk(s, FinalChunk) ELSE s

\* if (ollamaData.done && !controllerClosed): terminal chunk, close, return
OnDone(s, data) ==
    IF data.done /\ ~s.controllerClosed
    THEN [SafeClose([WriteChunk(s, FinalChunk) EXCEPT !.hasFinished = TRUE])
             EXCEPT !.returned = TRUE]
    ELSE s

\* a parse failure that ends the stream through the error path
OnParseErrorAborts(s) == [WriteError(s, "Unexpected end of JSON input") EXCEPT !.returned = TRUE]

\* catch (parseError): the line is logged and skipped
OnParseError(s) == s

\* the completion flag handled before the content of the same frame
ProcessFrameDoneFirst(s, data) == OnContent(OnDone(s, data), data)

ProcessFrame(s, data) == OnDone(OnContent(s, data), data)

ProcessLine(s, line) ==
    IF Trim(line) # << >> /\ ~s.hasFinished /\ ~s.controllerClosed
    THEN LET data == JsonParse(line)
         IN  IF data.ok THEN ProcessFrame(s, data) ELSE OnParseError(s)
    ELSE s

RECURSIVE ProcessLines(_, _)
\* for (const line of lines), left by the return of OnDone or by the break
ProcessLines(s, lines) ==
    IF lines = << >> THEN s
    ELSE LET s1 == ProcessLine(s, Head(lines))
         IN  IF s1.returned \/ s1.controllerClosed THEN s1
             ELSE ProcessLines(s1, Tail(lines))

\* a loop body that forgets the partial line of the previous read
ProcessReadDropsPartial(s, value) ==
    LET lines == Split(value)
        s1 == [s EXCEPT !.buffer = lines[Len(lines)]]
    IN  ProcessLines(s1, SubSeq(lines, 1, Len(lines) - 1))

\* one pass of the loop body on the bytes of one read
ProcessRead(s, value) ==
    LET lines == Split(s.buffer \o value)
        s1 == [s EXCEPT !.buffer = lines[Len(lines)]]
    IN  ProcessLines(s1, SubSeq(lines, 1, Len(lines) - 1))

\* the line left in the buffer when the upstream closed
TrailingBuffer(s) ==
    IF Trim(s.buffer) # << >> /\ ~s.hasFinished /\ ~s.controllerClosed
    THEN LET data == JsonParse(Trim(s.buffer))
         IN  IF data.ok
             THEN [OnContent(s, data) EXCEPT !.hasFinished = IF data.done THEN TRUE ELSE @]
             ELSE s
    ELSE s

CloseDecision(s) ==
    IF ~s.hasFinished /\ ~s.controllerClosed THEN EnsureMinimalResponse(s)
    ELSE IF ~s.controllerClosed THEN SafeClose(s)
    ELSE s

AfterLoop(s) == CloseDecision(TrailingBuffer(s))

\* (error as Error).message || 'Internal streaming error'
ErrorText(message) == IF message = "" THEN DefaultMessage ELSE message

\* the outer catch
CatchError(s, message) ==
    IF ~s.controllerClosed THEN WriteError(s, ErrorText(message)) ELSE s

(***************************************************************************)
(* Actions.                                                                *)
(***************************************************************************)
Store(s) ==
    /\ buffer' = s.buffer
    /\ hasFinished' = s.hasFinished
    /\ hasContentBeenSent' = s.hasContentBeenSent
    /\ controllerClosed' = s.controllerClosed
    /\ queue' = s.queue
    /\ closeRequested' = s.closeRequested
    /\ outState' = s.outState
    /\ emitted' = s.emitted

\* start() has finished; leaving the try releases the reader when there is one
Finish(s, reader) ==
    /\ Store(s)
    /\ pc' = "done"
    /\ ollamaReader' = IF reader = "locked" THEN "released" ELSE reader

\* while (!hasFinished && !controllerClosed): the next read, or the code after the loop
LoopOrFinish(s) ==
    IF s.returned THEN Finish(s, "locked")
    ELSE IF ~s.hasFinished /\ ~s.controllerClosed
         THEN Store(s) /\ pc' = "read" /\ ollamaReader' = "locked"
    ELSE Finish(AfterLoop(s), "locked")

(***************************************************************************)
(* The parts of the gateway that are at rest while one of them is checked. *)
(***************************************************************************)
ReferenceModels == << "gpt-oss:120b", "gpt-oss:20b" >>

\* null; `body.model || null` turns the empty string into it as well
Null == ""

NoRequest ==
    [ method |-> "", path |-> << >>, parses |-> FALSE, hasModel |-> FALSE, model |-> Null,
      messages |-> "absent" ]

\* the body of a response: what kind of document it is, what its "error"
\* member is, and the members of an error object; a message is the sequence of
\* the pieces its template joins
Body(kind, error, message, type, param) ==
    [ kind |-> kind, error |-> error, message |-> message, type |-> type, param |-> param ]

\* new Response(null)
NullBody == Body("none", "absent", << >>, "", "")

\* a JSON document without an "error" member
JsonBody == Body("json", "absent", << >>, "", "")

\* a server-sent event stream
StreamBody == Body("stream", "absent", << >>, "", "")

\* the body of a backend's response, passed on as it is
UpstreamBody == Body("upstream", "absent", << >>, "", "")

\* new Response('...') with a plain text
TextBody(message) == Body("text", "absent", message, "", "")

\* JSON.stringify({ error: '...' }), with or without further members
StringErrorBody(message) == Body("json", "string", message, "", "")

\* JSON.stringify({ error: { message, type, ...(param && { param }) } })
ErrorBody(message, type, param) == Body("json", "object", message, type, param)

NoResponse == [ status |-> 0, by |-> "none", body |-> NullBody, cause |-> "none" ]

NoAnswer == [ outcome |-> "pending", models |-> << >> ]

NoListing == [ status |-> 0, models |-> << >> ]

NoChatRequest == [ json_object |-> FALSE, tools |-> "absent" ]

NoOllamaResponse ==
    [ outcome |-> "pending", hasContent |-> FALSE, content |-> << >>,
      prompt_eval_count |-> 0, eval_count |-> 0 ]

NoChatResponse ==
    [ status |-> 0, role |-> "", content |-> << >>, finish_reason |-> "",
      prompt_tokens |-> 0, completion_tokens |-> 0, total_tokens |-> 0 ]

ReferenceConfig ==
    /\ REMOTE_MODELS = ReferenceModels
    /\ OLLAMA_API_KEY = TRUE

RouteIdle ==
    /\ req = NoRequest
    /\ rpc = "idle"
    /\ calls = << >>
    /\ response = NoResponse
    /\ availableModels = { }

DirectoryIdle ==
    /\ op = "none"
    /\ mpc = "idle"
    /\ localData = NoAnswer
    /\ remoteData = NoAnswer
    /\ listing = NoListing

ChatIdle ==
    /\ chatReq = NoChatRequest
    /\ ollamaResponse = NoOllamaResponse
    /\ cpc = "idle"
    /\ chatResponse = NoChatResponse

NoEmbedBody == [ parses |-> FALSE, model |-> "", form |-> "absent", inputs |-> << >> ]

NoEmbedResponse == [ status |-> 0, data |-> << >>, message |-> << >>, type |-> "" ]

EmbedIdle ==
    /\ embedBody = NoEmbedBody
    /\ epc = "idle"
    /\ embedIndex = 0
    /\ embedCalls = << >>
    /\ inFlight = { }
    /\ ollamaResults = << >>
    /\ embeddings = << >>
    /\ embedResponse = NoEmbedResponse

TranslateIdle ==
    /\ openaiMessages = << >>
    /\ tpc = "idle"
    /\ ollamaMessages = << >>

PairIdle == streams = << >>

Hosts == { "local", "remote" }

\* a `stop` the caller did not set
StopUndefined == [ kind |-> "undefined", text |-> "", items |-> << >> ]

NoChatBody ==
    [ authorization |-> "absent", parses |-> FALSE, hasModel |-> FALSE, model |-> "",
      messages |-> "absent", stream |-> FALSE, temperature |-> -1, top_p |-> -1,
      max_tokens |-> -1, n |-> -1, frequency_penalty |-> -1, presence_penalty |-> -1,
      stop |-> StopUndefined, response_format |-> "absent" ]

NoOllamaRequest ==
    [ model |-> "", stream |-> FALSE, hasOptions |-> FALSE, options |-> << >>,
      format |-> "absent" ]

NoDispatchResponse ==
    [ status |-> 0, kind |-> "none", type |-> "", param |-> "", events |-> << >> ]

DispatchIdle ==
    /\ chatBody = NoChatBody
    /\ OLLAMA_STREAM = TRUE
    /\ backendUp = [ h \in Hosts |-> TRUE ]
    /\ dpc = "idle"
    /\ listedModels = { }
    /\ ollamaRequest = NoOllamaRequest
    /\ dispatchCalls = << >>
    /\ dispatchResponse = NoDispatchResponse

StreamIdle ==
    /\ pc = "done"
    /\ body = << >>
    /\ pos = 0
    /\ upstream = "pending"
    /\ readFailed = FALSE
    /\ ollamaReader = "none"
    /\ buffer = << >>
    /\ hasFinished = FALSE
    /\ hasContentBeenSent = FALSE
    /\ controllerClosed = FALSE
    /\ queue = << >>
    /\ closeRequested = FALSE
    /\ outState = "closed"
    /\ cancelled = FALSE
    /\ emitted = << >>
    /\ delivered = << >>

Init ==
    /\ pc = "call"
    /\ body \in Bodies
    /\ pos = 0
    /\ upstream = "pending"
    /\ readFailed = FALSE
    /\ ollamaReader = "none"
    /\ buffer = << >>
    /\ hasFinished = FALSE
    /\ hasContentBeenSent = FALSE
    /\ controllerClosed = FALSE
    /\ queue = << >>
    /\ closeRequested = FALSE
    /\ outState = "readable"
    /\ cancelled = FALSE
    /\ emitted = << >>
    /\ delivered = << >>
    /\ ReferenceConfig
    /\ RouteIdle
    /\ DirectoryIdle
    /\ ChatIdle
    /\ EmbedIdle
    /\ TranslateIdle
    /\ PairIdle
    /\ DispatchIdle

\* the upstream answers 2xx with a body: role chunk, then the first read
CallOk ==
    /\ pc = "call"
    /\ upstream' = "ok"
    /\ LoopOrFinish(WriteChunk(Locals, RoleChunk))
    /\ UNCHANGED gatewayVars
    /\ UNCHANGED << body, pos, readFailed, cancelled, delivered >>

\* the upstream answers non-2xx: the error body is read first
CallStatus ==
    /\ pc = "call"
    /\ upstream' = "status"
    /\ pc' = "text"
    /\ UNCHANGED gatewayVars
    /\ UNCHANGED << body, pos, readFailed, ollamaReader, buffer, hasFinished,
                    hasContentBeenSent, controllerClosed, queue, closeRequested, outState,
                    cancelled, emitted, delivered >>

TextResolves ==
    /\ pc = "text"
    /\ Finish(WriteError(Locals, StatusMessage), ollamaReader)
    /\ UNCHANGED gatewayVars
    /\ UNCHANGED << body, pos, upstream, readFailed, cancelled, delivered >>

TextRejects ==
    /\ pc = "text"
    /\ Finish(CatchError(Locals, TextMessage), ollamaReader)
    /\ UNCHANGED gatewayVars
    /\ UNCHANGED << body, pos, upstream, readFailed, cancelled, delivered >>

\* chatCompletion throws: the connection failed
CallThrows ==
    /\ pc = "call"
    /\ upstream' = "connerr"
    /\ Finish(CatchError(Locals, ConnectMessage), ollamaReader)
    /\ UNCHANGED gatewayVars
    /\ UNCHANGED << body, pos, readFailed, cancelled, delivered >>

\* the response has no body
CallNoBody ==
    /\ pc = "call"
    /\ upstream' = "nobody"
    /\ Finish(WriteError(Locals, NoBodyMessage), ollamaReader)
    /\ UNCHANGED gatewayVars
    /\ UNCHANGED << body, pos, readFailed, cancelled, delivered >>

\* a read delivers the next n bytes
ReadChunk ==
    /\ pc = "read"
    /\ \E n \in 1..MaxReadLen :
          /\ pos + n <= Len(body)
          /\ pos' = pos + n
          /\ IF controllerClosed THEN Finish(AfterLoop(Locals), "locked")
             ELSE LoopOrFinish(ProcessRead(Locals, SubSeq(body, pos + 1, pos + n)))
    /\ UNCHANGED gatewayVars
    /\ UNCHANGED << body, upstream, readFailed, cancelled, delivered >>

\* a read reports the end of the upstream body
ReadDone ==
    /\ pc = "read"
    /\ pos = Len(body)
    /\ Finish(AfterLoop(Locals), "locked")
    /\ UNCHANGED gatewayVars
    /\ UNCHANGED << body, pos, upstream, readFailed, cancelled, delivered >>

\* a read throws
ReadFails ==
    /\ pc = "read"
    /\ readFailed' = TRUE
    /\ \E message \in {ReadMessage, ""} : Finish(CatchError(Locals, message), "locked")
    /\ UNCHANGED gatewayVars
    /\ UNCHANGED << body, pos, upstream, cancelled, delivered >>

\* the HTTP layer takes the next chunk for the client
ConsumerRead ==
    /\ outState = "readable"
    /\ queue # << >>
    /\ delivered' = Append(delivered, Head(queue))
    /\ queue' = Tail(queue)
    /\ outState' = IF closeRequested /\ Tail(queue) = << >> THEN "closed" ELSE outState
    /\ UNCHANGED gatewayVars
    /\ UNCHANGED << pc, body, pos, upstream, readFailed, ollamaReader, buffer, hasFinished,
                    hasContentBeenSent, controllerClosed, closeRequested, cancelled,
                    emitted >>

\* a cancellation that leaves the outbound stream open
ConsumerCancelKeepsOpen ==
    /\ outState = "readable"
    /\ cancelled' = TRUE
    /\ UNCHANGED gatewayVars
    /\ UNCHANGED << pc, body, pos, upstream, readFailed, ollamaReader, buffer, hasFinished,
                    hasContentBeenSent, controllerClosed, queue, closeRequested, outState,
                    emitted, delivered >>

\* the client disconnects: the stream closes and drops its queue; cancel() only logs
ConsumerCancel ==
    /\ outState = "readable"
    /\ cancelled' = TRUE
    /\ outState' = "closed"
    /\ queue' = << >>
    /\ UNCHANGED gatewayVars
    /\ UNCHANGED << pc, body, pos, upstream, readFailed, ollamaReader, buffer, hasFinished,
                    hasContentBeenSent, controllerClosed, closeRequested, emitted,
                    delivered >>

Next ==
    \/ CallOk
    \/ CallStatus
    \/ TextResolves
    \/ TextRejects
    \/ CallThrows
    \/ CallNoBody
    \/ ReadChunk
    \/ ReadDone
    \/ ReadFails
    \/ ConsumerRead
    \/ ConsumerCancel

Spec == Init /\ [][Next]_vars

(***************************************************************************)
(* Vocabulary of the properties.                                           *)
(***************************************************************************)
\* the default high-water mark of a ReadableStream built without a strategy
HighWaterMark == 1

IsFinish(c) == c.finish_reason # "null"
IsContent(c) == c.delta = "content" /\ c.content # ""
\* a content chunk that carries the content of an upstream frame
IsTranslated(c) == c.delta = "content" /\ c.content \in Contents
IsErrorChunk(c) ==
    c.delta = "content" /\
    c.content \in { "Error: " \o m : m \in {NoBodyMessage, StatusMessage, ConnectMessage,
                                             ReadMessage, TextMessage, DefaultMessage} }

IsPrefix(a, b) == Len(a) <= Len(b) /\ a = SubSeq(b, 1, Len(a))
ContentsOf(seq) == [i \in 1..Len(seq) |-> seq[i].content]
TranslatedContents(seq) == ContentsOf(SelectSeq(seq, IsTranslated))

IsBlank(line) == Trim(line) = << >>
IsMalformed(line) == ~IsBlank(line) /\ ~JsonParse(line).ok
IsFrame(line) == ~IsBlank(line) /\ JsonParse(line).ok

\* the frames of a body in arrival order, the unterminated last line included
ParsedFrames(text) ==
    LET lines == SelectSeq(Split(text), IsFrame)
    IN  [i \in 1..Len(lines) |-> JsonParse(lines[i])]

\* the frames up to and including the first one that carries the completion flag
UpToDone(frames) ==
    IF \E i \in 1..Len(frames) : frames[i].done
    THEN SubSeq(frames, 1, CHOOSE i \in 1..Len(frames) :
                               frames[i].done /\ \A j \in 1..(i - 1) : ~frames[j].done)
    ELSE frames

HasContent(frame) == frame.content # ""
ExpectedContents(text) == ContentsOf(SelectSeq(UpToDone(ParsedFrames(text)), HasContent))

\* the body with its malformed lines taken out, newline included
WithoutMalformed(text) ==
    LET lines == Split(text)
        NotMalformed(line) == ~IsMalformed(line)
        last == lines[Len(lines)]
    IN  JoinLines(SelectSeq(SubSeq(lines, 1, Len(lines) - 1), NotMalformed))
            \o (IF IsMalformed(last) THEN << >> ELSE last)

FreshLocals ==
    [ buffer |-> << >>, hasFinished |-> FALSE, hasContentBeenSent |-> FALSE,
      controllerClosed |-> FALSE, returned |-> FALSE, queue |-> << >>,
      closeRequested |-> FALSE, outState |-> "readable", emitted |-> << >> ]

\* what the pipeline emits for a body that arrives in one read and then ends,
\* with a consumer that never cancels
RunWhole(text) ==
    LET s == ProcessRead(WriteChunk(FreshLocals, RoleChunk), text)
    IN  IF s.returned THEN s ELSE AfterLoop(s)

\* the run went through the read loop to its end, undisturbed
CompletedRun == pc = "done" /\ upstream = "ok" /\ ~readFailed /\ ~cancelled

\* the messages writeError can carry for each failure of the upstream call
FailureReasons ==
    [ status |-> {StatusMessage, TextMessage}, connerr |-> {ConnectMessage},
      nobody |-> {NoBodyMessage} ]

(***************************************************************************)
(* The claims.                                                             *)
(***************************************************************************)
\* C1: when the consumer never cancels, once the outbound stream is closed the
\* sequence the client received ends with a chunk whose finish_reason is
\* non-null, immediately followed by the sentinel.
C1_EndsWithTerminalAndSentinel ==
    (outState = "closed" /\ ~cancelled) =>
        /\ Len(delivered) >= 2
        /\ delivered[Len(delivered)] = Sentinel
        /\ IsFinish(delivered[Len(delivered) - 1])

\* C2: on every path the sentinel is emitted at most once, a chunk with a
\* non-null finish_reason is emitted at most once, nothing but the sentinel
\* follows the terminal chunk and nothing follows the sentinel; the client
\* receives a prefix of what was emitted.
C2_TerminalOnceAndLast ==
    LET n == Len(emitted)
    IN  /\ Cardinality({ i \in 1..n : emitted[i] = Sentinel }) <= 1
        /\ Cardinality({ i \in 1..n : IsFinish(emitted[i]) }) <= 1
        /\ \A i \in 1..n : emitted[i] = Sentinel => i = n
        /\ \A i \in 1..n : IsFinish(emitted[i]) =>
               \/ i = n
               \/ i = n - 1 /\ emitted[n] = Sentinel
        /\ IsPrefix(delivered, emitted)

\* a stream that ended through the fallback after content had been sent
C2_Witness ==
    /\ CompletedRun
    /\ Len(emitted) >= 4
    /\ emitted[Len(emitted)] = Sentinel
    /\ emitted[Len(emitted) - 1] = FinalChunk
    /\ TranslatedContents(emitted) # << >>
    /\ \A i \in 1..Len(body) : body[i] # "T"

\* C3: every streaming response holds exactly one role chunk, and it is the
\* first chunk emitted, also when the upstream fails after streaming started.
C3_OneRoleChunkFirst ==
    emitted # << >> =>
        /\ emitted[1] = RoleChunk
        /\ \A i \in 2..Len(emitted) : emitted[i] # RoleChunk

\* C4: when the upstream call fails before any frame is read (non-2xx status,
\* connection error, missing body) and the consumer has not cancelled, the
\* pipeline emits exactly: role chunk, one content chunk embedding the failure
\* reason, terminal chunk with finish_reason stop and empty delta, sentinel;
\* the outbound stream is then closed and the client receives that sequence.
C4_CallFailureSequence ==
    (pc = "done" /\ upstream \in {"status", "connerr", "nobody"} /\ ~cancelled) =>
        /\ \E m \in FailureReasons[upstream] :
               emitted = << RoleChunk, ErrorChunk(m), FinalChunk, Sentinel >>
        /\ closeRequested
        /\ controllerClosed
        /\ IsPrefix(delivered, emitted)
        /\ delivered \o queue = emitted
        /\ (queue = << >> <=> outState = "closed")

\* the client has received the whole error stream of a non-2xx answer
C4_Witness ==
    /\ pc = "done"
    /\ upstream = "status"
    /\ ~cancelled
    /\ outState = "closed"
    /\ delivered = << RoleChunk, ErrorChunk(StatusMessage), FinalChunk, Sentinel >>

\* C5: when the upstream response carries no frame with message content before
\* its byte stream ends, the client still gets a chunk with non-empty content
\* before the terminal chunk.
C5_ContentBeforeTerminal ==
    (CompletedRun /\ \A i \in 1..Len(ParsedFrames(body)) : ~HasContent(ParsedFrames(body)[i])) =>
        \E i, j \in 1..Len(emitted) :
            i < j /\ IsContent(emitted[i]) /\ IsFinish(emitted[j])

\* C6: the translated content deltas are, in order, the non-empty contents of
\* the parsable frames up to and including the first frame with the completion
\* flag: always a prefix of them, all of them once an undisturbed run is over;
\* no content chunk follows the terminal chunk.
C6_ArrivalOrder ==
    /\ IsPrefix(TranslatedContents(emitted), ExpectedContents(body))
    /\ CompletedRun => TranslatedContents(emitted) = ExpectedContents(body)
    /\ \A i, j \in 1..Len(emitted) :
           (i < j /\ IsFinish(emitted[i])) => emitted[j].delta # "content"

\* a frame with both content and the completion flag, after another content frame
C6_Witness ==
    /\ CompletedRun
    /\ Len(TranslatedContents(emitted)) = 2
    /\ \E i \in 1..Len(ParsedFrames(body)) :
           ParsedFrames(body)[i].done /\ HasContent(ParsedFrames(body)[i])
    /\ \E i \in 1..Len(emitted) : emitted[i] = FinalChunk

C8_NoReadAfterCancel ==
    [][cancelled => ~(pc' = "read" /\ pos' # pos)]_vars

FrameLineLen == Len(EncodeFrame("a", FALSE)) + 1
\* one read enqueues at most a content chunk per frame it completes, then the
\* terminal chunk and the sentinel; a read that throws enqueues the error sequence
ChunksPerRead ==
    LET frames == (MaxReadLen \div FrameLineLen) + 2
        failure == Len(<< RoleChunk, ErrorChunk(ReadMessage), FinalChunk, Sentinel >>)
    IN  IF frames > failure THEN frames ELSE failure

\* C10: the chunks enqueued on the outbound stream and not yet consumed never
\* exceed the high-water mark plus the chunks of one upstream read.
C10_QueueBounded ==
    Len(queue) <= HighWaterMark + ChunksPerRead


(***************************************************************************)
(* The request router: serve.fetch and the helpers it calls.  A path is    *)
(* the sequence of its segments, so "/api/blobs/" is << "api", "blobs",    *)
(* "" >> and "/" is << "" >>.                                              *)
(***************************************************************************)
ModelNames == { "gpt-oss:120b", "gpt-oss:20b", "llama3" }

\* the configurations explored: the reference one, another list, no remote model
Allowlists == { ReferenceModels, << "llama3" >>, << >> }

Methods == { "GET", "POST", "DELETE", "HEAD", "OPTIONS" }

ModelPaths ==
    { << "api", "generate" >>, << "api", "chat" >>, << "api", "embed" >>,
      << "api", "embeddings" >>, << "api", "show" >> }

ManagementPaths ==
    { << "api", "pull" >>, << "api", "push" >>, << "api", "create" >>,
      << "api", "delete" >>, << "api", "copy" >> }

MetadataPaths == { << "api", "tags" >>, << "api", "ps" >>, << "api", "version" >> }

BlobPaths == { << "api", "blobs", "sha256:0a" >>, << "api", "blobs", "" >>, << "api", "blobs" >> }

OpenAIPaths ==
    { << "v1", "chat", "completions" >>, << "v1", "models" >>, << "v1", "completions" >>,
      << "v1", "embeddings" >>, << "v1", "" >>, << "v1", "files" >> }

Paths ==
    ModelPaths \cup ManagementPaths \cup MetadataPaths \cup BlobPaths \cup OpenAIPaths
        \cup { << "api", "embed", "x" >>, << "" >>, << "health" >> }

RequestBodies ==
    { [ parses |-> FALSE, hasModel |-> FALSE, model |-> Null ],
      [ parses |-> TRUE, hasModel |-> FALSE, model |-> Null ] }
        \cup { [ parses |-> TRUE, hasModel |-> TRUE, model |-> m ] : m \in ModelNames \cup { "" } }

\* what the body has as "messages": nothing, something that is no array, an
\* empty array, or an array whose first message is as named
MessageShapes ==
    { "absent", "notArray", "empty", "valid", "noRole", "badRole", "toolNoId", "tooLarge" }

\* the messages are looked at on the chat path only
Requests ==
    { [ method |-> m, path |-> p, parses |-> b.parses, hasModel |-> b.hasModel,
        model |-> b.model, messages |-> "absent" ] :
          m \in Methods, p \in Paths, b \in RequestBodies }
        \cup { [ method |-> m, path |-> << "v1", "chat", "completions" >>, parses |-> TRUE,
                 hasModel |-> b.hasModel, model |-> b.model, messages |-> shape ] :
                   m \in Methods, b \in { b \in RequestBodies : b.parses },
                   shape \in MessageShapes }

\* Array.prototype.includes
Includes(list, x) == \E i \in 1..Len(list) : list[i] = x

\* the chat client decides with its own copy of the names
IsRemoteModelMagicPair(model) == Includes(ReferenceModels, model)

IsRemoteModel(model) == Includes(REMOTE_MODELS, model)

ExtractModelFromRequest(r) ==
    IF ~(r.method \in { "POST", "DELETE" }) THEN Null
    ELSE IF ~r.parses THEN Null
    ELSE IF r.hasModel /\ r.model # "" THEN r.model
    ELSE Null

\* /^\/api\/blobs\/(.+)$/ : the digest, or null
ExtractDigestFromPath(path) ==
    IF Len(path) >= 3 /\ path[1] = "api" /\ path[2] = "blobs" /\ ~(Len(path) = 3 /\ path[3] = "")
    THEN path[3]
    ELSE Null

\* pathname.startsWith("/" + root + "/")
UnderRoot(path, root) == Len(path) >= 2 /\ path[1] = root

UnderBlobs(path) == Len(path) >= 3 /\ path[1] = "api" /\ path[2] = "blobs"

\* a model endpoint that sends a request without a model to the remote backend
ModelTargetDefaultsRemote(model) ==
    IF model # Null
    THEN IF IsRemoteModel(model) THEN "remote" ELSE "local"
    ELSE "remote"

\* the backend a model endpoint forwards to
ModelTarget(model) ==
    IF model # Null
    THEN IF IsRemoteModel(model) THEN "remote" ELSE "local"
    ELSE "local"

OpenAIBranch(r) ==
    IF r.path = << "v1", "chat", "completions" >> /\ r.method = "POST" THEN "v1chat"
    ELSE IF r.path = << "v1", "models" >> /\ r.method = "GET" THEN "v1models"
    ELSE IF r.path = << "v1", "completions" >> /\ r.method = "POST" THEN "v1completions"
    ELSE IF r.path = << "v1", "embeddings" >> /\ r.method = "POST" THEN "v1embeddings"
    ELSE IF r.path = << "v1", "" >> /\ r.method = "GET" THEN "v1root"
    ELSE "v1notfound"

\* a router that sends the management endpoints through the model test
OllamaBranchManagementByModel(r) ==
    IF r.path = << "api", "tags" >> /\ r.method = "GET" THEN "tags"
    ELSE IF r.path = << "api", "ps" >> /\ r.method = "GET" THEN "ps"
    ELSE IF r.path = << "api", "version" >> /\ r.method = "GET" THEN "version"
    ELSE IF UnderBlobs(r.path) /\ r.method \in { "HEAD", "POST" } THEN "blobs"
    ELSE IF r.method \in { "POST" } /\ r.path \in ModelPaths \cup ManagementPaths THEN "model"
    ELSE "other"

\* a router without the answer to the listing of the models
OllamaBranchTagsForwarded(r) ==
    IF r.path = << "api", "ps" >> /\ r.method = "GET" THEN "ps"
    ELSE IF r.path = << "api", "version" >> /\ r.method = "GET" THEN "version"
    ELSE IF UnderBlobs(r.path) /\ r.method \in { "HEAD", "POST" } THEN "blobs"
    ELSE IF r.method \in { "POST" } /\ r.path \in ModelPaths THEN "model"
    ELSE IF r.method \in { "POST", "DELETE" } /\ r.path \in ManagementPaths THEN "management"
    ELSE "other"

OllamaBranch(r) ==
    IF r.path = << "api", "tags" >> /\ r.method = "GET" THEN "tags"
    ELSE IF r.path = << "api", "ps" >> /\ r.method = "GET" THEN "ps"
    ELSE IF r.path = << "api", "version" >> /\ r.method = "GET" THEN "version"
    ELSE IF UnderBlobs(r.path) /\ r.method \in { "HEAD", "POST" } THEN "blobs"
    ELSE IF r.method \in { "POST" } /\ r.path \in ModelPaths THEN "model"
    ELSE IF r.method \in { "POST", "DELETE" } /\ r.path \in ManagementPaths THEN "management"
    ELSE "other"

\* the branch of serve.fetch a request takes
Branch(r) ==
    IF r.method = "OPTIONS" THEN "preflight"
    ELSE IF UnderRoot(r.path, "v1") THEN OpenAIBranch(r)
    ELSE IF UnderRoot(r.path, "api") THEN OllamaBranch(r)
    ELSE IF r.path = << "" >> /\ r.method = "GET" THEN "root"
    ELSE "notfound"

\* a response that ends the request, after what the backend did
RespondAfter(cause, status, by, doc) ==
    /\ response' = [ status |-> status, by |-> by, body |-> doc, cause |-> cause ]
    /\ rpc' = "done"
    /\ UNCHANGED calls

Respond(status, by, doc) == RespondAfter("none", status, by, doc)

\* createErrorResponse
CreateErrorResponse(message, type, status, param) ==
    Respond(status, Branch(req), ErrorBody(message, type, param))

\* the request goes on to the model directory
HandOver(by) ==
    /\ rpc' = "directory"
    /\ response' = [ NoResponse EXCEPT !.by = by ]
    /\ UNCHANGED calls

\* one call to a backend, and the wait for its answer
CallBackend(host, path, useAuth, authorized, via, wait) ==
    /\ calls' = Append(calls, [ host |-> host, path |-> path, useAuth |-> useAuth,
                                authorized |-> authorized, via |-> via ])
    /\ rpc' = wait
    /\ UNCHANGED response

\* a forwarder that sets the bearer header whatever the target
ForwardOllamaRequestAlwaysAuth(targetHost, useAuth) ==
    CallBackend(targetHost, req.path, useAuth, OLLAMA_API_KEY, "forward", "forward")

\* forwardOllamaRequest up to its fetch
ForwardOllamaRequest(targetHost, useAuth) ==
    CallBackend(targetHost, req.path, useAuth, useAuth /\ OLLAMA_API_KEY, "forward", "forward")


\* the names the chat client sends to the remote backend
ChatRemoteModels == << "gpt-oss:120b", "gpt-oss:20b" >>

\* OllamaClient.chatCompletion up to its fetch; fetchRemote throws without a credential
ChatCompletion(model, stream) ==
    IF Includes(ChatRemoteModels, model)
    THEN IF OLLAMA_API_KEY
         THEN CallBackend("remote", << "api", "chat" >>, TRUE, TRUE, "client", "backend")
         ELSE IF stream THEN Respond(200, "v1chat", StreamBody)
         ELSE CreateErrorResponse(<< "OLLAMA_API_KEY required for remote requests" >>,
                                  "internal_server_error", 500, "")
    ELSE CallBackend("local", << "api", "chat" >>, FALSE, FALSE, "client", "backend")

\* a validation that takes an empty array of messages
ValidateRequestAllowsEmpty(r) ==
    IF ~r.hasModel \/ r.model = "" THEN "model"
    ELSE IF r.messages \in { "absent", "notArray" } THEN "messages"
    ELSE IF r.messages \in { "noRole", "badRole" } THEN "messages[0].role"
    ELSE IF r.messages = "toolNoId" THEN "messages[0].tool_call_id"
    ELSE IF r.messages = "tooLarge" THEN "messages[0].content"
    ELSE Null

\* validateRequest: the parameter it reports, or null
ValidateRequest(r) ==
    IF ~r.hasModel \/ r.model = "" THEN "model"
    ELSE IF r.messages \in { "absent", "notArray", "empty" } THEN "messages"
    ELSE IF r.messages \in { "noRole", "badRole" } THEN "messages[0].role"
    ELSE IF r.messages = "toolNoId" THEN "messages[0].tool_call_id"
    ELSE IF r.messages = "tooLarge" THEN "messages[0].content"
    ELSE Null

ValidationMessage(param) ==
    IF param \in { "model", "messages", "messages[0].tool_call_id" }
    THEN << "Missing required parameter: ", param >>
    ELSE IF param = "messages[0].content" THEN << "Message content too large (max 200000 characters)" >>
    ELSE << "Missing or invalid value for ", param >>

\* a check that knows every model
ValidateModelAcceptsAll(model, available) == TRUE

ValidateModel(model, available) == model \in available

RouteFrame ==
    UNCHANGED << streamVars, pairVars, dispatchVars, configVars, req, availableModels, directoryVars, chatVars,
                 embedVars, translateVars >>

InitRoute ==
    /\ StreamIdle
    /\ DirectoryIdle
    /\ ChatIdle
    /\ EmbedIdle
    /\ TranslateIdle
    /\ PairIdle
    /\ DispatchIdle
    /\ REMOTE_MODELS \in Allowlists
    /\ OLLAMA_API_KEY \in BOOLEAN
    /\ req \in Requests
    /\ rpc = "recv"
    /\ calls = << >>
    /\ response = NoResponse
    /\ availableModels \in IF Branch(req) = "v1chat" THEN SUBSET ModelNames ELSE { { } }

Preflight ==
    /\ rpc = "recv" /\ Branch(req) = "preflight"
    /\ Respond(200, "preflight", NullBody)
    /\ RouteFrame

\* handleChatCompletions up to the listing of the models
V1ChatCompletions ==
    /\ rpc = "recv" /\ Branch(req) = "v1chat"
    /\ \E authValid \in BOOLEAN :
          IF ~authValid
          THEN CreateErrorResponse(<< "Incorrect API key provided." >>,
                                   "invalid_request_error", 401, "")
          ELSE IF ~req.parses
          THEN CreateErrorResponse(<< "Unexpected token" >>, "internal_server_error", 500, "")
          ELSE IF ValidateRequest(req) # Null
          THEN CreateErrorResponse(ValidationMessage(ValidateRequest(req)),
                                   "invalid_request_error", 400, ValidateRequest(req))
          ELSE rpc' = "models" /\ UNCHANGED << calls, response >>
    /\ RouteFrame

\* handleChatCompletions from the listing of the models to the call of the backend
V1ChatModelsListed ==
    /\ rpc = "models"
    /\ \E stream \in BOOLEAN,
          invalid \in { Null, "temperature", "top_p", "max_tokens", "n" } :
          IF ~ValidateModel(req.model, availableModels)
          THEN CreateErrorResponse(<< "The model '", req.model, "' does not exist" >>,
                                   "invalid_request_error", 404, "model")
          ELSE IF invalid # Null
          THEN CreateErrorResponse(<< invalid, " is out of range" >>,
                                   "invalid_request_error", 400, invalid)
          ELSE ChatCompletion(req.model, stream)
    /\ RouteFrame

\* the backend answers the chat client or the embeddings client
BackendAnswered ==
    /\ rpc = "backend"
    /\ \/ Respond(200, Branch(req), JsonBody)
       \/ Respond(200, Branch(req), StreamBody) /\ Branch(req) = "v1chat"
       \/ CreateErrorResponse(<< "Ollama request failed" >>, "internal_server_error", 500, "")
    /\ RouteFrame

V1Models ==
    /\ rpc = "recv" /\ Branch(req) = "v1models"
    /\ HandOver("v1models")
    /\ RouteFrame

V1Completions ==
    /\ rpc = "recv" /\ Branch(req) = "v1completions"
    /\ CreateErrorResponse(<< "The Completions API is deprecated. Please use /v1/chat/completions instead." >>,
                           "invalid_request_error", 400, "")
    /\ RouteFrame

\* handleEmbeddings up to the call of the backend for the first input
V1Embeddings ==
    /\ rpc = "recv" /\ Branch(req) = "v1embeddings"
    /\ \E inputValid \in BOOLEAN :
          IF ~req.parses
          THEN CreateErrorResponse(<< "Failed to process embeddings request" >>, "api_error",
                                   500, "requestId")
          ELSE IF ~req.hasModel \/ req.model = "" \/ ~inputValid
          THEN CreateErrorResponse(<< "Missing required fields: model and input" >>,
                                   "invalid_request_error", 400, "requestId")
          ELSE CallBackend("local", << "api", "embeddings" >>, FALSE, FALSE, "client", "backend")
    /\ RouteFrame

V1Root ==
    /\ rpc = "recv" /\ Branch(req) = "v1root"
    /\ Respond(200, "v1root", JsonBody)
    /\ RouteFrame

V1NotFound ==
    /\ rpc = "recv" /\ Branch(req) = "v1notfound"
    /\ Respond(404, "v1notfound", ErrorBody(<< "Not found" >>, "invalid_request_error", ""))
    /\ RouteFrame

ApiTags ==
    /\ rpc = "recv" /\ Branch(req) = "tags"
    /\ HandOver("tags")
    /\ RouteFrame

ApiPs ==
    /\ rpc = "recv" /\ Branch(req) = "ps"
    /\ HandOver("ps")
    /\ RouteFrame

\* handleOllamaVersion asks the local backend for its version
ApiVersion ==
    /\ rpc = "recv" /\ Branch(req) = "version"
    /\ CallBackend("local", << "api", "version" >>, FALSE, FALSE, "version", "version")
    /\ RouteFrame

\* then the remote backend, when the credential is set
VersionLocalAnswered ==
    /\ rpc = "version"
    /\ IF OLLAMA_API_KEY
       THEN CallBackend("remote", << "api", "version" >>, TRUE, TRUE, "version", "version2")
       ELSE Respond(200, "version", JsonBody)
    /\ RouteFrame

VersionRemoteAnswered ==
    /\ rpc = "version2"
    /\ Respond(200, "version", JsonBody)
    /\ RouteFrame

ApiBlobs ==
    /\ rpc = "recv" /\ Branch(req) = "blobs"
    /\ IF ExtractDigestFromPath(req.path) # Null
       THEN ForwardOllamaRequest("local", FALSE)
       ELSE Respond(400, "blobs", TextBody(<< "Invalid blob digest" >>))
    /\ RouteFrame

ApiModel ==
    /\ rpc = "recv" /\ Branch(req) = "model"
    /\ LET target == ModelTarget(ExtractModelFromRequest(req))
       IN  ForwardOllamaRequest(target, target = "remote")
    /\ RouteFrame

ApiManagement ==
    /\ rpc = "recv" /\ Branch(req) = "management"
    /\ ForwardOllamaRequest("local", FALSE)
    /\ RouteFrame

ApiOther ==
    /\ rpc = "recv" /\ Branch(req) = "other"
    /\ ForwardOllamaRequest("local", FALSE)
    /\ RouteFrame

Root ==
    /\ rpc = "recv" /\ Branch(req) = "root"
    /\ Respond(200, "root", JsonBody)
    /\ RouteFrame

NotFound ==
    /\ rpc = "recv" /\ Branch(req) = "notfound"
    /\ Respond(404, "notfound",
               StringErrorBody(<< "Not found - try /v1/* for OpenAI API or /api/* for Ollama API" >>))
    /\ RouteFrame

\* what forwardOllamaRequest was last called with
LastCall == calls[Len(calls)]

\* the statuses a backend answers with when it refuses
RefusalStatuses == { 401, 404, 500 }

\* a forwarder whose fetch is not guarded: the failure leaves the handler
ForwardAnsweredUnguarded ==
    /\ rpc = "forward"
    /\ \/ RespondAfter("ok", 200, "forward", UpstreamBody)
       \/ \E status \in RefusalStatuses : RespondAfter("status", status, "forward", UpstreamBody)
       \/ RespondAfter("connerr", 500, "unhandled", TextBody(<< "Internal Server Error" >>))
    /\ RouteFrame

\* forwardOllamaRequest from its fetch: the backend's response is passed on, the
\* refusal of an authenticated call is reported, a failure to connect becomes 502
ForwardAnswered ==
    /\ rpc = "forward"
    /\ \/ RespondAfter("ok", 200, "forward", UpstreamBody)
       \/ \E status \in RefusalStatuses :
             IF LastCall.useAuth
             THEN \/ RespondAfter("status", status, "forward",
                                  StringErrorBody(<< "Remote authentication failed: ", "status" >>))
                  \/ RespondAfter("status", 502, "forward",
                                  StringErrorBody(<< "Failed to connect to ", "remote",
                                                     " Ollama: ", "body" >>))
             ELSE RespondAfter("status", status, "forward", UpstreamBody)
       \/ RespondAfter("connerr", 502, "forward",
                       StringErrorBody(<< "Failed to connect to ",
                                          IF LastCall.useAuth THEN "remote" ELSE "local",
                                          " Ollama: ", "refused" >>))
    /\ RouteFrame

NextRoute ==
    \/ Preflight
    \/ V1ChatCompletions
    \/ V1ChatModelsListed
    \/ BackendAnswered
    \/ V1Models
    \/ V1Completions
    \/ V1Embeddings
    \/ V1Root
    \/ V1NotFound
    \/ ApiTags
    \/ ApiPs
    \/ ApiVersion
    \/ VersionLocalAnswered
    \/ VersionRemoteAnswered
    \/ ApiBlobs
    \/ ApiModel
    \/ ApiManagement
    \/ ApiOther
    \/ Root
    \/ NotFound
    \/ ForwardAnswered

SpecRoute == InitRoute /\ [][NextRoute]_vars


(***************************************************************************)
(* Vocabulary of the routing properties.                                   *)
(***************************************************************************)
\* the router has decided what to do with the request
Routed == rpc \in { "forward", "directory", "version", "version2", "backend", "models", "done" }

\* the request was handed to forwardOllamaRequest with this target
ForwardedTo(host) == \E i \in 1..Len(calls) : calls[i].via = "forward" /\ calls[i].host = host

Forwarded == ForwardedTo("local") \/ ForwardedTo("remote")

Allowlisted(name) == name \in { REMOTE_MODELS[i] : i \in 1..Len(REMOTE_MODELS) }

\* the body is JSON with a model field naming an allowlisted model
CarriesAllowlistedModel == req.parses /\ req.hasModel /\ Allowlisted(req.model)

ModelBearingPost == req.method = "POST" /\ req.path \in ModelPaths

\* a request under /api/ that the gateway answers without forwarding it
AnsweredLocally ==
    \/ req.method = "OPTIONS"
    \/ req.path \in MetadataPaths /\ req.method = "GET"
    \/ /\ UnderBlobs(req.path) /\ req.method \in { "HEAD", "POST" }
       /\ Len(req.path) = 3 /\ req.path[3] = ""

\* C11: on the native surface a request is forwarded to the remote backend
\* exactly when it is a POST to one of the five model-bearing paths whose JSON
\* body names an allowlisted model; a POST to such a path with another model
\* name, no model field or an unparsable body is forwarded to the local backend.
C11_RemoteIffAllowlistedModel ==
    (Routed /\ UnderRoot(req.path, "api")) =>
        /\ ForwardedTo("remote") <=> (ModelBearingPost /\ CarriesAllowlistedModel)
        /\ (ModelBearingPost /\ ~CarriesAllowlistedModel) =>
               (ForwardedTo("local") /\ ~ForwardedTo("remote"))

C11_Witness ==
    /\ rpc = "done" /\ response.by = "forward"
    /\ req.path = << "api", "chat" >> /\ req.model = "gpt-oss:120b"
    /\ ForwardedTo("remote")

\* C12: management requests, blob requests with a digest and every other
\* request under /api/ that the gateway does not answer itself are forwarded
\* to the local backend and never to the remote one, whatever model the body
\* names.
C12_LocalOnlyEndpoints ==
    (Routed /\ UnderRoot(req.path, "api") /\ ~AnsweredLocally /\ ~ModelBearingPost) =>
        (ForwardedTo("local") /\ ~ForwardedTo("remote"))

C12_Witness ==
    /\ rpc = "done" /\ response.by = "forward"
    /\ req.path = << "api", "pull" >> /\ req.method = "POST"
    /\ CarriesAllowlistedModel
    /\ ForwardedTo("local")

\* C13: for every allowlist and model name, the backend call of a chat
\* completion on the OpenAI-style surface goes to the remote backend exactly
\* when the name is allowlisted, as the native surface decides for POST /api/chat.
C13_ChatTakesNativeDecision ==
    \A i \in 1..Len(calls) :
        (calls[i].via = "client" /\ calls[i].path = << "api", "chat" >>) =>
            (calls[i].host = "remote" <=> ModelTarget(req.model) = "remote")

\* C18 as stated: no request to /api/tags, /api/ps or /api/version is forwarded.
C18_MetadataNeverForwarded ==
    (Routed /\ req.path \in MetadataPaths) => ~Forwarded

\* C18: a GET request to /api/tags, /api/ps or /api/version is never forwarded
\* to a backend; the gateway answers it from its own aggregation.
C18_GetMetadataNeverForwarded ==
    (Routed /\ req.path \in MetadataPaths /\ req.method = "GET") =>
        /\ ~Forwarded
        /\ \/ rpc = "directory" /\ response.by \in { "tags", "ps" }
           \/ rpc \in { "version", "version2" }
           \/ rpc = "done" /\ response.by = "version"

C18_Witness ==
    /\ rpc = "done" /\ response.by = "version"
    /\ req.path = << "api", "version" >> /\ req.method = "GET"
    /\ Len(calls) = 2


(***************************************************************************)
(* The model directory: ModelService and the handlers of GET /api/tags,    *)
(* GET /v1/models and GET /api/ps.  A model entry is its name and the      *)
(* backend whose record it is.                                             *)
(***************************************************************************)
MaxModels == 2

Entries(source) == { [ name |-> n, source |-> source ] : n \in ModelNames }

RECURSIVE ListsUpTo(_, _)
ListsUpTo(entries, n) ==
    IF n = 0 THEN { << >> }
    ELSE LET shorter == ListsUpTo(entries, n - 1)
         IN  shorter \cup { Append(l, x) : l \in { l \in shorter : Len(l) = n - 1 }, x \in entries }

\* what a backend can answer to a listing: its list, a non-2xx status, no
\* connection, or a body that is not JSON
Answers(source) ==
    { [ outcome |-> "ok", models |-> l ] : l \in ListsUpTo(Entries(source), MaxModels) }
        \cup { [ outcome |-> o, models |-> << >> ] : o \in { "status", "connerr", "badjson" } }

Operations == { "tags", "v1models", "ps" }

GetLocalModels(answer) ==
    IF answer.outcome = "ok" THEN answer.models ELSE << >>

\* a remote listing passed on as the backend gave it
GetRemoteModelsUnfiltered(answer) ==
    IF answer.outcome = "ok" THEN answer.models ELSE << >>

GetRemoteModels(answer) ==
    IF answer.outcome = "ok"
    THEN SelectSeq(answer.models, LAMBDA model : Includes(REMOTE_MODELS, model.name))
    ELSE << >>

\* the loop of deduplicateModels: the first entry of each name
RECURSIVE KeepFirst(_, _)
KeepFirst(models, seen) ==
    IF models = << >> THEN << >>
    ELSE IF Head(models).name \in seen THEN KeepFirst(Tail(models), seen)
    ELSE << Head(models) >> \o KeepFirst(Tail(models), seen \cup { Head(models).name })

DeduplicateModels(models) ==
    LET localModels == SelectSeq(models, LAMBDA model : ~IsRemoteModel(model.name))
        remoteModels == SelectSeq(models, LAMBDA model : IsRemoteModel(model.name))
    IN  KeepFirst(localModels \o remoteModels, { })

\* a listing with the remote list ahead of the local one
GetUnifiedModelsRemoteFirst(local, remote) ==
    DeduplicateModels(GetRemoteModels(remote) \o GetLocalModels(local))

\* a listing that gives up when one source fails
GetUnifiedModelsAllOrNothing(local, remote) ==
    IF local.outcome = "ok" /\ remote.outcome = "ok"
    THEN DeduplicateModels(GetLocalModels(local) \o GetRemoteModels(remote))
    ELSE << >>

GetUnifiedModels(local, remote) ==
    DeduplicateModels(GetLocalModels(local) \o GetRemoteModels(remote))

GetOpenAIModels(local, remote) ==
    LET ollamaModels == GetUnifiedModels(local, remote)
    IN  [ i \in 1..Len(ollamaModels) |->
            [ id |-> ollamaModels[i].name,
              owned_by |-> IF IsRemoteModel(ollamaModels[i].name) THEN "ollama-turbo" ELSE "local" ] ]

GetRunningModels(local) ==
    IF local.outcome = "ok"
    THEN [ i \in 1..Len(local.models) |->
             [ name |-> local.models[i].name, source |-> local.models[i].source,
               _source |-> "local" ] ]
    ELSE << >>

\* handleUnifiedTags / handleModels: the body of the 200 response
ListingResponse(local, remote) ==
    [ status |-> 200,
      models |-> IF op = "tags" THEN GetUnifiedModels(local, remote)
                 ELSE GetOpenAIModels(local, remote) ]

DirectoryFrame ==
    UNCHANGED << streamVars, pairVars, dispatchVars, configVars, routeVars, chatVars, embedVars, translateVars, op >>

InitModels ==
    /\ StreamIdle
    /\ RouteIdle
    /\ ChatIdle
    /\ EmbedIdle
    /\ TranslateIdle
    /\ PairIdle
    /\ DispatchIdle
    /\ REMOTE_MODELS \in Allowlists
    /\ OLLAMA_API_KEY \in BOOLEAN
    /\ op \in Operations
    /\ mpc = "local"
    /\ localData = NoAnswer
    /\ remoteData = NoAnswer
    /\ listing = NoListing

\* getLocalModels returns; getRemoteModels asks the remote backend, or fails at
\* once when the credential is not set
LocalTagsAnswered ==
    /\ mpc = "local" /\ op \in { "tags", "v1models" }
    /\ \E answer \in Answers("local") :
          /\ localData' = answer
          /\ IF OLLAMA_API_KEY
             THEN mpc' = "remote" /\ UNCHANGED listing
             ELSE mpc' = "done" /\ listing' = ListingResponse(answer, remoteData)
    /\ UNCHANGED remoteData
    /\ DirectoryFrame

RemoteTagsAnswered ==
    /\ mpc = "remote"
    /\ \E answer \in Answers("remote") :
          /\ remoteData' = answer
          /\ listing' = ListingResponse(localData, answer)
    /\ mpc' = "done"
    /\ UNCHANGED localData
    /\ DirectoryFrame

\* handleMergedPs: only the local backend is asked
LocalPsAnswered ==
    /\ mpc = "local" /\ op = "ps"
    /\ \E answer \in Answers("local") :
          /\ localData' = answer
          /\ listing' = [ status |-> 200, models |-> GetRunningModels(answer) ]
    /\ mpc' = "done"
    /\ UNCHANGED remoteData
    /\ DirectoryFrame

NextModels ==
    \/ LocalTagsAnswered
    \/ RemoteTagsAnswered
    \/ LocalPsAnswered

SpecModels == InitModels /\ [][NextModels]_vars


(***************************************************************************)
(* Vocabulary of the model directory properties.                           *)
(***************************************************************************)
Listed == mpc = "done" /\ op = "tags"

\* the list a backend returned, empty when it did not answer with one
LocalList == IF localData.outcome = "ok" THEN localData.models ELSE << >>

RemoteList == IF remoteData.outcome = "ok" THEN remoteData.models ELSE << >>

RECURSIVE AllowlistedOnly(_)
AllowlistedOnly(models) ==
    IF models = << >> THEN << >>
    ELSE (IF Allowlisted(Head(models).name) THEN << Head(models) >> ELSE << >>)
             \o AllowlistedOnly(Tail(models))

NamesIn(models) == { models[i].name : i \in 1..Len(models) }

\* the entries from position i on whose name does not occur earlier in the list
RECURSIVE FirstOccurrences(_, _)
FirstOccurrences(models, i) ==
    IF i > Len(models) THEN << >>
    ELSE (IF \E j \in 1..(i - 1) : models[j].name = models[i].name
          THEN << >> ELSE << models[i] >>) \o FirstOccurrences(models, i + 1)

\* C14: isRemoteModel(name) is true exactly for the names of the configured
\* allowlist, whatever the backends list and whether or not they answer; with
\* the reference allowlist it is true for gpt-oss:120b and false for llama3.
C14_MembershipOnly ==
    /\ \A name \in ModelNames \cup { "" } : IsRemoteModel(name) <=> Allowlisted(name)
    /\ REMOTE_MODELS = ReferenceModels =>
           (IsRemoteModel("gpt-oss:120b") /\ ~IsRemoteModel("llama3"))
    /\ (mpc = "done" /\ op = "v1models") =>
           \A i \in 1..Len(listing.models) :
               listing.models[i].owned_by = "ollama-turbo" <=> Allowlisted(listing.models[i].id)

C14_Witness ==
    /\ REMOTE_MODELS = ReferenceModels
    /\ mpc = "done" /\ op = "v1models"
    /\ remoteData.outcome = "connerr"
    /\ \E i \in 1..Len(listing.models) :
          listing.models[i].id = "gpt-oss:120b" /\ listing.models[i].owned_by = "ollama-turbo"
    /\ \E i \in 1..Len(listing.models) :
          listing.models[i].id = "llama3" /\ listing.models[i].owned_by = "local"

\* C15: the unified listing has each name at most once, and a name that both
\* backends list is represented by the local backend's entry.
C15_UniqueNamesLocalWins ==
    Listed =>
        /\ \A i, j \in 1..Len(listing.models) :
               listing.models[i].name = listing.models[j].name => i = j
        /\ \A name \in NamesIn(LocalList) \cap NamesIn(RemoteList) :
               \E i \in 1..Len(listing.models) :
                   listing.models[i] = [ name |-> name, source |-> "local" ]

C15_Witness ==
    /\ Listed
    /\ localData.outcome = "ok" /\ remoteData.outcome = "ok"
    /\ \E name \in NamesIn(LocalList) \cap NamesIn(RemoteList) : Allowlisted(name)
    /\ Len(listing.models) = 1

\* C16: the unified listing is the local list followed by the allowlisted
\* entries of the remote list, without the entries whose name occurred
\* earlier, in that order.
C16_LocalFirstOrderKept ==
    Listed => listing.models = FirstOccurrences(LocalList \o AllowlistedOnly(RemoteList), 1)

\* C17: a source that fails (no connection, non-2xx, unreadable body) does not
\* fail an aggregation: the response is a 200 and holds the data of the
\* sources that answered and nothing else, the empty list when none did.
C17_PartialFailureDegrades ==
    mpc = "done" =>
        /\ listing.status = 200
        /\ op = "tags" =>
               /\ NamesIn(listing.models) = NamesIn(LocalList) \cup NamesIn(AllowlistedOnly(RemoteList))
               /\ \A i \in 1..Len(listing.models) :
                      \/ \E j \in 1..Len(LocalList) : LocalList[j] = listing.models[i]
                      \/ \E j \in 1..Len(RemoteList) : RemoteList[j] = listing.models[i]
        /\ op = "v1models" =>
               { listing.models[i].id : i \in 1..Len(listing.models) }
                   = NamesIn(LocalList) \cup NamesIn(AllowlistedOnly(RemoteList))
        /\ op = "ps" =>
               /\ Len(listing.models) = Len(LocalList)
               /\ \A i \in 1..Len(listing.models) :
                      /\ listing.models[i].name = LocalList[i].name
                      /\ listing.models[i].source = LocalList[i].source

C17_Witness ==
    /\ Listed
    /\ localData.outcome = "connerr"
    /\ remoteData.outcome = "ok"
    /\ listing.status = 200
    /\ Len(listing.models) = 2


(***************************************************************************)
(* The non-streaming chat handler: handleNonStreamingChat.  A content is   *)
(* the sequence of its characters.                                         *)
(***************************************************************************)
MaxContentLen == 3

QUOTE == "\""
BACKSLASH == "\\"

ContentChars == { "{", "}", QUOTE, BACKSLASH, "a", "1", SP }

RECURSIVE TextsUpTo(_)
TextsUpTo(n) ==
    IF n = 0 THEN { << >> }
    ELSE LET shorter == TextsUpTo(n - 1)
         IN  shorter \cup { Append(t, c) : t \in { t \in shorter : Len(t) = n - 1 }, c \in ContentChars }

\* JSON.parse, as a recognizer: each operator takes the position it starts at
\* and gives the position after what it read, or Fail
Fail == 0

RECURSIVE SkipWhitespace(_, _)
SkipWhitespace(text, i) ==
    IF i <= Len(text) /\ text[i] \in { SP, NL } THEN SkipWhitespace(text, i + 1) ELSE i

\* from inside a string literal to the position after its closing quote
RECURSIVE ScanString(_, _)
ScanString(text, i) ==
    IF i > Len(text) THEN Fail
    ELSE IF text[i] = QUOTE THEN i + 1
    ELSE IF text[i] = NL THEN Fail
    ELSE IF text[i] = BACKSLASH
         THEN IF i + 1 <= Len(text) /\ text[i + 1] \in { QUOTE, BACKSLASH, "n" }
              THEN ScanString(text, i + 2)
              ELSE Fail
    ELSE ScanString(text, i + 1)

RECURSIVE ScanDigits(_, _)
ScanDigits(text, i) ==
    IF i <= Len(text) /\ text[i] = "1" THEN ScanDigits(text, i + 1) ELSE i

RECURSIVE ParseValue(_, _)
RECURSIVE ParseMembers(_, _)
\* from the first member of an object to the position after its closing brace
ParseMembers(text, i) ==
    IF i > Len(text) \/ text[i] # QUOTE THEN Fail
    ELSE LET key == ScanString(text, i + 1)
             colon == SkipWhitespace(text, key)
         IN  IF key = Fail \/ colon > Len(text) \/ text[colon] # ":" THEN Fail
             ELSE LET value == ParseValue(text, SkipWhitespace(text, colon + 1))
                      next == SkipWhitespace(text, value)
                  IN  IF value = Fail \/ next > Len(text) THEN Fail
                      ELSE IF text[next] = "}" THEN next + 1
                      ELSE IF text[next] = "," THEN ParseMembers(text, SkipWhitespace(text, next + 1))
                      ELSE Fail

ParseValue(text, i) ==
    IF i > Len(text) THEN Fail
    ELSE IF text[i] = QUOTE THEN ScanString(text, i + 1)
    ELSE IF text[i] = "1" THEN ScanDigits(text, i)
    ELSE IF text[i] = "{"
         THEN LET first == SkipWhitespace(text, i + 1)
              IN  IF first <= Len(text) /\ text[first] = "}" THEN first + 1
                  ELSE ParseMembers(text, first)
    ELSE Fail

\* JSON.parse(text) does not throw
JsonParses(text) ==
    LET value == ParseValue(text, SkipWhitespace(text, 1))
    IN  value # Fail /\ SkipWhitespace(text, value) = Len(text) + 1

\* the characters of a string inside a JSON string literal
RECURSIVE Escape(_)
Escape(text) ==
    IF text = << >> THEN << >>
    ELSE (IF Head(text) \in { QUOTE, BACKSLASH } THEN << BACKSLASH, Head(text) >>
          ELSE IF Head(text) = NL THEN << BACKSLASH, "n" >>
          ELSE << Head(text) >>) \o Escape(Tail(text))

\* JSON.stringify({ response: content })
StringifyResponse(content) ==
    << "{", QUOTE, "r", "e", "s", "p", "o", "n", "s", "e", QUOTE, ":", QUOTE >>
        \o Escape(content) \o << QUOTE, "}" >>

\* 'Response received from model.', as one unit of text
PlaceholderContent == << PlaceholderText >>

\* undefined, for a count the backend left out
Missing == -1

Count(n) == IF n = Missing THEN 0 ELSE n

\* a handler that decides on the placeholder before it looks at the format
NormalizeContentPlaceholderFirst(request, answer) ==
    LET content == IF answer.hasContent THEN answer.content ELSE << >>
        filled == IF content = << >> /\ request.tools = "absent" THEN PlaceholderContent ELSE content
    IN  IF request.json_object /\ ~JsonParses(content)
        THEN StringifyResponse(filled)
        ELSE filled

\* a handler without the placeholder
NormalizeContentNoPlaceholder(request, answer) ==
    LET content == IF answer.hasContent THEN answer.content ELSE << >>
    IN  IF request.json_object /\ ~JsonParses(content)
        THEN StringifyResponse(content)
        ELSE content

\* the content of the envelope (chat.ts 138-150)
NormalizeContent(request, answer) ==
    LET content == IF answer.hasContent THEN answer.content ELSE << >>
        json == IF request.json_object /\ ~JsonParses(content)
                THEN StringifyResponse(content)
                ELSE content
    IN  IF json = << >> /\ request.tools = "absent" THEN PlaceholderContent ELSE json

Envelope(request, answer) ==
    [ status |-> 200,
      role |-> "assistant",
      content |-> NormalizeContent(request, answer),
      finish_reason |-> "stop",
      prompt_tokens |-> Count(answer.prompt_eval_count),
      completion_tokens |-> Count(answer.eval_count),
      total_tokens |-> Count(answer.prompt_eval_count) + Count(answer.eval_count) ]

\* createErrorResponse(..., 'internal_server_error', 500)
InternalError == [ NoChatResponse EXCEPT !.status = 500 ]

ChatRequests == [ json_object : BOOLEAN, tools : { "absent", "empty", "some" } ]

UsageCounts == { Missing, 0, 2 }

ChatAnswers ==
    { [ outcome |-> "ok", hasContent |-> TRUE, content |-> t, prompt_eval_count |-> p,
        eval_count |-> e ] : t \in TextsUpTo(MaxContentLen), p \in UsageCounts, e \in { Missing, 2 } }
        \cup { [ outcome |-> "ok", hasContent |-> FALSE, content |-> << >>,
                 prompt_eval_count |-> p, eval_count |-> Missing ] : p \in UsageCounts }

ChatFrame ==
    UNCHANGED << streamVars, pairVars, dispatchVars, configVars, routeVars, directoryVars, embedVars, translateVars,
                 chatReq >>

InitChat ==
    /\ StreamIdle
    /\ RouteIdle
    /\ DirectoryIdle
    /\ ReferenceConfig
    /\ EmbedIdle
    /\ TranslateIdle
    /\ PairIdle
    /\ DispatchIdle
    /\ chatReq \in ChatRequests
    /\ ollamaResponse = NoOllamaResponse
    /\ cpc = "call"
    /\ chatResponse = NoChatResponse

\* the backend answers 2xx with a JSON body
ChatAnswered ==
    /\ cpc = "call"
    /\ ollamaResponse.outcome = "pending"
    /\ \E answer \in ChatAnswers :
          /\ ollamaResponse' = answer
          /\ chatResponse' = Envelope(chatReq, answer)
    /\ cpc' = "done"
    /\ ChatFrame

\* the backend answers non-2xx, cannot be reached, or its body is not JSON
ChatFailed ==
    /\ cpc = "call"
    /\ ollamaResponse.outcome = "pending"
    /\ \E outcome \in { "status", "connerr", "badjson" } :
          ollamaResponse' = [ NoOllamaResponse EXCEPT !.outcome = outcome ]
    /\ chatResponse' = InternalError
    /\ cpc' = "done"
    /\ ChatFrame

\* the backend accepts the connection and never sends a response: the await
\* of fetch stays pending; the options given to fetch carry no signal and no
\* timer is started, so nothing in the handler ends the wait
BackendSilent ==
    /\ cpc = "call"
    /\ ollamaResponse.outcome = "pending"
    /\ ollamaResponse' = [ NoOllamaResponse EXCEPT !.outcome = "silent" ]
    /\ UNCHANGED << cpc, chatResponse >>
    /\ ChatFrame

NextChat ==
    \/ ChatAnswered
    \/ ChatFailed
    \/ BackendSilent

SpecChat == InitChat /\ [][NextChat]_vars


(***************************************************************************)
(* Vocabulary of the non-streaming chat properties.                        *)
(***************************************************************************)
\* the backend answered 2xx with a JSON body and the envelope was returned
AnsweredOk == cpc = "done" /\ ollamaResponse.outcome = "ok"

\* the text the backend returned as message content, empty when it returned none
BackendContent == IF ollamaResponse.hasContent THEN ollamaResponse.content ELSE << >>

\* the string a JSON string literal's characters stand for
RECURSIVE Unescape(_)
Unescape(text) ==
    IF text = << >> THEN << >>
    ELSE IF Head(text) = BACKSLASH /\ Len(text) >= 2
         THEN << IF text[2] = "n" THEN NL ELSE text[2] >> \o Unescape(Tail(Tail(text)))
    ELSE << Head(text) >> \o Unescape(Tail(text))

ResponsePrefix == << "{", QUOTE, "r", "e", "s", "p", "o", "n", "s", "e", QUOTE, ":", QUOTE >>

\* text is {"response":"..."} and the string in it is original
WrapsOriginal(text, original) ==
    /\ Len(text) >= Len(ResponsePrefix) + 2
    /\ SubSeq(text, 1, Len(ResponsePrefix)) = ResponsePrefix
    /\ SubSeq(text, Len(text) - 1, Len(text)) = << QUOTE, "}" >>
    /\ Unescape(SubSeq(text, Len(ResponsePrefix) + 1, Len(text) - 2)) = original

\* C19: a non-streaming chat request without tools that the backend answers
\* successfully gets an envelope whose message has role "assistant" and a
\* non-empty content, also when the backend's content is empty or missing.
C19_AssistantNonEmptyContent ==
    (AnsweredOk /\ chatReq.tools = "absent") =>
        /\ chatResponse.status = 200
        /\ chatResponse.role = "assistant"
        /\ chatResponse.content # << >>

C19_Witness ==
    /\ AnsweredOk /\ chatReq.tools = "absent" /\ ~chatReq.json_object
    /\ ~ollamaResponse.hasContent
    /\ chatResponse.role = "assistant"
    /\ chatResponse.content = PlaceholderContent

\* C20: with response_format json_object and a successful backend answer the
\* returned content parses as JSON: it is the backend's content when that
\* parses, and {"response": <the backend's content>} otherwise, whether the
\* backend's content is empty or not and whether tools are present or not.
C20_JsonObjectContentParses ==
    (AnsweredOk /\ chatReq.json_object) =>
        /\ JsonParses(chatResponse.content)
        /\ JsonParses(BackendContent) => chatResponse.content = BackendContent
        /\ ~JsonParses(BackendContent) => WrapsOriginal(chatResponse.content, BackendContent)

C20_Witness ==
    /\ AnsweredOk /\ chatReq.json_object /\ chatReq.tools = "absent"
    /\ ollamaResponse.hasContent /\ BackendContent = << >>
    /\ JsonParses(chatResponse.content)
    /\ WrapsOriginal(chatResponse.content, << >>)

(***************************************************************************)
(* The streaming pipeline and the JSON response format.                    *)
(* handleStreamingChat never reads response_format, so every run of the    *)
(* pipeline is also the run of a request that asked for json_object.       *)
(***************************************************************************)
\* the content deltas the client received, in order: their concatenation
DeliveredContent == ContentsOf(SelectSeq(delivered, IsContent))

\* C21: the content a streaming json_object request returns to its client,
\* i.e. all content deltas of the complete stream joined, fallback placeholder
\* and in-band error text included, parses as JSON.
C21_StreamedContentParses ==
    (outState = "closed" /\ ~cancelled) => JsonParses(DeliveredContent)

(***************************************************************************)
(* Vocabulary of the error handling properties of the router.              *)
(***************************************************************************)
ChatRequest == req.path = << "v1", "chat", "completions" >> /\ req.method = "POST"

\* the body is JSON and its "messages" is absent, no array, or an empty array
LacksMessages == req.parses /\ req.messages \in { "absent", "notArray", "empty" }

\* the handler is past its validation of the request
Validated == rpc \in { "models", "backend", "done" }

\* the handler is past its check of the model
ModelChecked == rpc \in { "backend", "done" }

\* the Authorization header was accepted
Authenticated == response.status # 401

NamesModel == req.hasModel /\ req.model # ""

ChatCallSent ==
    \E i \in 1..Len(calls) : calls[i].via = "client" /\ calls[i].path = << "api", "chat" >>

\* C22 as stated: a chat completion request without messages is answered 400
\* with param "messages", whatever the other fields of the body are, a missing
\* model included, and no call is sent upstream.
C22_MissingMessagesAlways ==
    (ChatRequest /\ Validated /\ Authenticated /\ LacksMessages) =>
        /\ rpc = "done"
        /\ response.status = 400
        /\ response.body.param = "messages"
        /\ calls = << >>

\* C22: a chat completion request that names a model and has no messages is
\* answered 400 with param "messages", and no call is sent upstream.
C22_MissingMessagesWithModel ==
    (ChatRequest /\ Validated /\ Authenticated /\ LacksMessages /\ NamesModel) =>
        /\ rpc = "done"
        /\ response.status = 400
        /\ response.body.error = "object"
        /\ response.body.param = "messages"
        /\ calls = << >>

C22_Witness ==
    /\ ChatRequest /\ rpc = "done" /\ NamesModel
    /\ req.messages = "empty"
    /\ response.status = 400 /\ response.body.param = "messages"
    /\ calls = << >>

\* C23: a chat completion request that passes the validation of its shape and
\* names a model the unified listing does not have is answered 404 with a
\* message that contains the name, and no chat call is sent to a backend.
C23_UnknownModel404 ==
    (ChatRequest /\ ModelChecked /\ Authenticated /\ req.parses /\ ValidateRequest(req) = Null
         /\ ~(req.model \in availableModels)) =>
        /\ rpc = "done"
        /\ response.status = 404
        /\ \E i \in 1..Len(response.body.message) : response.body.message[i] = req.model
        /\ ~ChatCallSent

C23_Witness ==
    /\ ChatRequest /\ rpc = "done"
    /\ req.model = "llama3" /\ req.messages = "valid"
    /\ availableModels = { "gpt-oss:120b" }
    /\ response.status = 404
    /\ ~ChatCallSent

\* an error response whose body the gateway wrote itself
GatewayError == rpc = "done" /\ response.status >= 400 /\ response.body.kind # "upstream"

\* C24: every error response the gateway produces has a JSON body
\* {"error": {message, type, ...}} whose error member is an object with a
\* string message and a string type.
C24_OneErrorEnvelope ==
    GatewayError =>
        /\ response.body.kind = "json"
        /\ response.body.error = "object"
        /\ response.body.message # << >>
        /\ response.body.type # ""

\* C25: when the backend a native request is forwarded to cannot be reached,
\* the caller is answered 502 with a JSON error body by the forwarder itself.
C25_UnreachableIs502 ==
    (rpc = "done" /\ Forwarded /\ response.cause = "connerr") =>
        /\ response.by = "forward"
        /\ response.status = 502
        /\ response.body.kind = "json"
        /\ response.body.error # "absent"

C25_Witness ==
    /\ rpc = "done" /\ ForwardedTo("remote") /\ response.cause = "connerr"
    /\ response.status = 502
    /\ response.body.kind = "json"


(***************************************************************************)
(* Failures of the backend call of a non-streaming chat completion        *)
(***************************************************************************)

\* C26: a non-streaming chat completion whose backend cannot be reached is
\* answered with HTTP 502.
C26_ChatUnreachableIs502 ==
    (cpc = "done" /\ ollamaResponse.outcome = "connerr") => chatResponse.status = 502

\* C27: a non-streaming call ends even when the backend accepts the connection
\* and never responds: a run of the handler never stops before the client is
\* answered, because the timeout of the call can still fire.
C27_SilentBackendTimesOut ==
    (~ ENABLED NextChat) => cpc = "done"


(***************************************************************************)
(* POST /v1/embeddings: handleEmbeddings calls the local backend once per *)
(* input item, awaiting each call inside the loop.  A text is a sequence   *)
(* of words, so that message.includes('Model') is the presence of a word.  *)
(***************************************************************************)
MaxInputs == 3

StringItem(text) == [ type |-> "string", text |-> text ]

\* an item of body.input that is not a string
NumberItem == [ type |-> "number", text |-> "" ]

Items == { StringItem("a"), StringItem("b"), NumberItem }

\* body.input: absent, one string (possibly empty), or an array of items
EmbedInputs ==
    { [ form |-> "absent", inputs |-> << >> ] }
        \cup { [ form |-> "string", inputs |-> << StringItem(t) >> ] : t \in { "", "a" } }
        \cup { [ form |-> "array", inputs |-> s ] :
                 s \in UNION { [ 1..n -> Items ] : n \in 0..MaxInputs } }

EmbedBodies ==
    { NoEmbedBody }
        \cup { [ parses |-> TRUE, model |-> m, form |-> x.form, inputs |-> x.inputs ] :
                 m \in { "", "nomic-embed-text" }, x \in EmbedInputs }

\* !body.input
InputFalsy(b) == b.form = "absent" \/ (b.form = "string" /\ b.inputs[1].text = "")

\* inputs[i], with i counted from 0 as in the loop
InputAt(i) == embedBody.inputs[i + 1]

\* the reason phrases a backend sends with a non-2xx status
ReasonPhrases ==
    { << "Not", "Found" >>, << "Internal", "Server", "Error" >>, << "Model", "Not", "Found" >> }

StatusWord(status) == IF status = 404 THEN "404" ELSE "500"

NoOllamaResult == [ outcome |-> "ok", valid |-> FALSE, status |-> 200, statusText |-> << "OK" >> ]

\* what one call of generateEmbeddings can meet: a 2xx answer with or without
\* an embedding array, a non-2xx answer, a refused connection, a body that is
\* not JSON
OllamaResults ==
    { [ NoOllamaResult EXCEPT !.valid = v ] : v \in BOOLEAN }
        \cup { [ outcome |-> "status", valid |-> FALSE, status |-> st, statusText |-> ph ] :
                 st \in { 404, 500 }, ph \in ReasonPhrases }
        \cup { [ NoOllamaResult EXCEPT !.outcome = o, !.status = 0, !.statusText = << >> ] :
                 o \in { "connerr", "badjson" } }

\* the message of the error generateEmbeddings throws
ThrownMessage(result) ==
    CASE result.outcome = "status" ->
            << "Embeddings", "failed:", StatusWord(result.status) >> \o result.statusText
      [] result.outcome = "connerr" ->
            << "Local", "Ollama", "connection", "failed:", "refused" >>
      [] OTHER -> << "Unexpected", "token" >>

\* message.includes(word)
MessageIncludes(message, word) == \E k \in 1..Len(message) : message[k] = word

\* the vector the backend computes for a prompt
VectorOf(text) == << text >>

EmbedError(message, type, status) ==
    [ status |-> status, data |-> << >>, message |-> message, type |-> type ]

ReturnEmbed(answer, i, data, made, flying) ==
    /\ epc' = "done"
    /\ embedResponse' = answer
    /\ embedIndex' = i
    /\ embeddings' = data
    /\ embedCalls' = made
    /\ inFlight' = flying

\* the for loop from index i up to its next await or return
EmbedLoop(i, data, made, flying) ==
    IF i >= Len(embedBody.inputs)
    THEN ReturnEmbed([ NoEmbedResponse EXCEPT !.status = 200, !.data = data ],
                     i, data, made, flying)
    ELSE IF InputAt(i).type # "string"
    THEN ReturnEmbed(EmbedError(<< "All input items must be strings" >>,
                                "invalid_request_error", 400),
                     i, data, made, flying)
    ELSE /\ epc' = "call"
         /\ embedIndex' = i
         /\ embedCalls' = Append(made, i)
         /\ inFlight' = flying \cup { i }
         /\ embeddings' = data
         /\ UNCHANGED embedResponse

EmbedFrame ==
    UNCHANGED << streamVars, pairVars, dispatchVars, configVars, routeVars, directoryVars, chatVars, translateVars,
                 embedBody >>

InitEmbed ==
    /\ StreamIdle
    /\ RouteIdle
    /\ DirectoryIdle
    /\ ChatIdle
    /\ TranslateIdle
    /\ PairIdle
    /\ DispatchIdle
    /\ ReferenceConfig
    /\ embedBody \in EmbedBodies
    /\ epc = "recv"
    /\ embedIndex = 0
    /\ embedCalls = << >>
    /\ inFlight = { }
    /\ ollamaResults = << >>
    /\ embeddings = << >>
    /\ embedResponse = NoEmbedResponse

\* the handler up to its first backend call
EmbedReceived ==
    /\ epc = "recv"
    /\ IF ~embedBody.parses
       THEN ReturnEmbed(EmbedError(<< "Failed to process embeddings request" >>, "api_error", 500),
                        0, << >>, << >>, { })
       ELSE IF embedBody.model = "" \/ InputFalsy(embedBody)
       THEN ReturnEmbed(EmbedError(<< "Missing required fields: model and input" >>,
                                   "invalid_request_error", 400),
                        0, << >>, << >>, { })
       ELSE IF Len(embedBody.inputs) = 0
       THEN ReturnEmbed(EmbedError(<< "Input cannot be empty" >>, "invalid_request_error", 400),
                        0, << >>, << >>, { })
       ELSE EmbedLoop(0, << >>, << >>, { })
    /\ UNCHANGED ollamaResults
    /\ EmbedFrame

\* the backend answers 2xx with an embedding: the entry is pushed and the loop
\* goes on
EmbedItemAnswered ==
    /\ epc = "call"
    /\ ollamaResults' = Append(ollamaResults, [ NoOllamaResult EXCEPT !.valid = TRUE ])
    /\ EmbedLoop(embedIndex + 1,
                 Append(embeddings, [ object |-> "embedding",
                                      embedding |-> VectorOf(InputAt(embedIndex).text),
                                      index |-> embedIndex ]),
                 embedCalls, inFlight \ { embedIndex })
    /\ EmbedFrame

\* what the handler answers after a call that did not give an embedding
FailureResponse(result) ==
    IF result.outcome = "ok"
    THEN EmbedError(<< "Invalid embedding response from Ollama" >>, "api_error", 500)
    ELSE IF MessageIncludes(ThrownMessage(result), "Model")
    THEN EmbedError(<< "Model '", embedBody.model, "' not found. Make sure it's pulled in Ollama." >>,
                    "invalid_request_error", 404)
    ELSE EmbedError(<< "Failed to generate embeddings" >>, "api_error", 500)

\* a handler that skips the item whose call failed and goes on with the next
EmbedItemFailedSkips ==
    /\ epc = "call"
    /\ \E result \in OllamaResults \ { [ NoOllamaResult EXCEPT !.valid = TRUE ] } :
          ollamaResults' = Append(ollamaResults, result)
    /\ EmbedLoop(embedIndex + 1, embeddings, embedCalls, inFlight \ { embedIndex })
    /\ EmbedFrame

\* the call threw, or its answer carries no embedding array: the handler
\* returns at once
EmbedItemFailed ==
    /\ epc = "call"
    /\ \E result \in OllamaResults \ { [ NoOllamaResult EXCEPT !.valid = TRUE ] } :
          /\ ollamaResults' = Append(ollamaResults, result)
          /\ ReturnEmbed(FailureResponse(result), embedIndex, embeddings, embedCalls,
                         inFlight \ { embedIndex })
    /\ EmbedFrame

NextEmbed ==
    \/ EmbedReceived
    \/ EmbedItemAnswered
    \/ EmbedItemFailed

SpecEmbed == InitEmbed /\ [][NextEmbed]_vars

(***************************************************************************)
(* Vocabulary of the embeddings properties                                 *)
(***************************************************************************)
GaveNoEmbedding(result) == result.outcome # "ok" \/ ~result.valid

EmbedAnswered == epc = "done"

LastResult == ollamaResults[Len(ollamaResults)]

\* the backend reports that the named model does not exist
UnknownModel(result) == result.outcome = "status" /\ result.status = 404

\* C28: the items are processed in input order, one call per item and at most
\* one in flight; a failed call is the last call, and the request then fails
\* with no embeddings returned; on success data has one entry per item, with
\* the item's position as index.
C28_SequentialAllOrNothing ==
    /\ \A k \in 1..Len(embedCalls) : embedCalls[k] = k - 1
    /\ Cardinality(inFlight) <= 1
    /\ \A k \in 1..Len(ollamaResults) :
          GaveNoEmbedding(ollamaResults[k]) =>
              /\ Len(embedCalls) = k
              /\ EmbedAnswered
              /\ embedResponse.status >= 400
              /\ embedResponse.data = << >>
    /\ (EmbedAnswered /\ embedResponse.status = 200) =>
          /\ Len(embedCalls) = Len(embedBody.inputs)
          /\ Len(embedResponse.data) = Len(embedBody.inputs)
          /\ \A k \in 1..Len(embedResponse.data) :
                /\ embedResponse.data[k].index = k - 1
                /\ embedResponse.data[k].embedding = VectorOf(embedBody.inputs[k].text)

C28_Witness ==
    /\ EmbedAnswered
    /\ Len(embedBody.inputs) = 3
    /\ Len(ollamaResults) = 2
    /\ ~GaveNoEmbedding(ollamaResults[1])
    /\ GaveNoEmbedding(ollamaResults[2])
    /\ embedCalls = << 0, 1 >>
    /\ embedResponse.status = 500
    /\ embedResponse.data = << >>

\* C29: a failed backend call is answered 404 when the backend reported that
\* the model does not exist, and 500 for every other failure.
C29_UnknownModel404Else500 ==
    (EmbedAnswered /\ ollamaResults # << >> /\ GaveNoEmbedding(LastResult)) =>
        embedResponse.status = IF UnknownModel(LastResult) THEN 404 ELSE 500


(***************************************************************************)
(* Request translation: convertToOllamaMessages maps the messages of a    *)
(* chat request to the backend's messages.  A text is the sequence of its  *)
(* characters, so that joining with spaces is concatenation.  The          *)
(* conversations checked have up to MaxMessages messages, at most one of   *)
(* them with a multi-part content of up to MaxParts parts.                 *)
(***************************************************************************)
MaxParts == 3
MaxMessages == 2

SPACE == " "

TextPart(text) == [ type |-> "text", text |-> text ]

ImagePart == [ type |-> "image_url", text |-> << >> ]

\* an element of the content array that is undefined
UndefinedPart == [ type |-> "undefined", text |-> << >> ]

\* a text part with an empty text stands for one without text too: both are
\* falsy for !!p.text
Parts == { TextPart(<< "a" >>), TextPart(<< "b" >>), TextPart(<< >>), ImagePart, UndefinedPart }

StringContent(text) == [ kind |-> "string", text |-> text, parts |-> << >> ]

ArrayContent(parts) == [ kind |-> "array", text |-> << >>, parts |-> parts ]

NullContent == [ kind |-> "null", text |-> << >>, parts |-> << >> ]

AbsentContent == [ kind |-> "absent", text |-> << >>, parts |-> << >> ]

PlainContents == { StringContent(<< "a", SPACE >>), NullContent, AbsentContent }

ArrayContents ==
    { ArrayContent(p) : p \in UNION { [ 1..n -> Parts ] : n \in 0..MaxParts } }

ChatRoles == { "user", "assistant" }

PlainMessages == [ role : ChatRoles, content : PlainContents ]

ArrayMessages == [ role : ChatRoles, content : ArrayContents ]

\* a conversation of n messages: the message m at position at, among the plain
\* messages p
WithMessageAt(n, at, m, p) == [ k \in 1..n |-> IF k = at THEN m ELSE p[k] ]

\* Array.prototype.join
RECURSIVE JoinWith(_, _)
JoinWith(texts, separator) ==
    IF texts = << >> THEN << >>
    ELSE IF Len(texts) = 1 THEN texts[1]
    ELSE texts[1] \o separator \o JoinWith(Tail(texts), separator)

\* content.filter(Boolean)
IsDefinedPart(p) == p.type # "undefined"

\* p.type === 'text' && !!p.text
IsNonEmptyTextPart(p) == p.type = "text" /\ p.text # << >>

TextOfPart(parts) == [ k \in 1..Len(parts) |-> parts[k].text ]

\* a conversion that concatenates the texts without a separator
ConvertContentToStringConcatenates(content) ==
    IF content.kind = "string" THEN content.text
    ELSE IF content.kind = "array"
    THEN JoinWith(TextOfPart(SelectSeq(SelectSeq(content.parts, IsDefinedPart),
                                       IsNonEmptyTextPart)),
                  << >>)
    ELSE << >>

ConvertContentToString(content) ==
    IF content.kind = "string" THEN content.text
    ELSE IF content.kind = "array"
    THEN JoinWith(TextOfPart(SelectSeq(SelectSeq(content.parts, IsDefinedPart),
                                       IsNonEmptyTextPart)),
                  << SPACE >>)
    ELSE << >>

ConvertToOllamaMessages(messages) ==
    [ k \in 1..Len(messages) |->
        [ role |-> messages[k].role, content |-> ConvertContentToString(messages[k].content) ] ]

TranslateFrame ==
    UNCHANGED << streamVars, pairVars, dispatchVars, configVars, routeVars, directoryVars, chatVars, embedVars,
                 openaiMessages >>

InitTranslate ==
    /\ StreamIdle
    /\ PairIdle
    /\ DispatchIdle
    /\ RouteIdle
    /\ DirectoryIdle
    /\ ChatIdle
    /\ EmbedIdle
    /\ ReferenceConfig
    /\ \E n \in 0..MaxMessages :
          \/ openaiMessages \in [ 1..n -> PlainMessages ]
          \/ \E at \in 1..n, m \in ArrayMessages :
                \E p \in [ (1..n) \ { at } -> PlainMessages ] :
                   openaiMessages = WithMessageAt(n, at, m, p)
    /\ tpc = "call"
    /\ ollamaMessages = << >>

Translate ==
    /\ tpc = "call"
    /\ ollamaMessages' = ConvertToOllamaMessages(openaiMessages)
    /\ tpc' = "done"
    /\ TranslateFrame

NextTranslate == Translate

SpecTranslate == InitTranslate /\ [][NextTranslate]_vars

(***************************************************************************)
(* Vocabulary of the translation property                                  *)
(***************************************************************************)
Translated == tpc = "done"

IsTextPart(p) == p.type = "text"

IsNonEmptyText(text) == text # << >>

\* the texts of the text parts, in order
TextsOfTextParts(parts) == TextOfPart(SelectSeq(parts, IsTextPart))

\* the texts with one space between neighbours
RECURSIVE SpaceSeparated(_)
SpaceSeparated(texts) ==
    IF Len(texts) = 0 THEN << >>
    ELSE IF Len(texts) = 1 THEN texts[1]
    ELSE SpaceSeparated(SubSeq(texts, 1, Len(texts) - 1)) \o << SPACE >> \o texts[Len(texts)]

SameCountAndRoles ==
    /\ Len(ollamaMessages) = Len(openaiMessages)
    /\ \A k \in 1..Len(openaiMessages) : ollamaMessages[k].role = openaiMessages[k].role

\* C30 as stated: messages map 1:1 with the same roles; a string content is
\* unchanged, an array content becomes the texts of its text parts joined by
\* single spaces, null or absent content becomes the empty string.
C30_TextPartsJoined ==
    Translated =>
        /\ SameCountAndRoles
        /\ \A k \in 1..Len(openaiMessages) :
              ollamaMessages[k].content =
                  CASE openaiMessages[k].content.kind = "string" ->
                          openaiMessages[k].content.text
                    [] openaiMessages[k].content.kind = "array" ->
                          SpaceSeparated(TextsOfTextParts(openaiMessages[k].content.parts))
                    [] OTHER -> << >>

\* C30 amended: as above, with the text parts whose text is empty dropped
\* like the non-text parts, so that the result never holds two spaces in a
\* row that the texts did not hold.
C30_NonEmptyTextPartsJoined ==
    Translated =>
        /\ SameCountAndRoles
        /\ \A k \in 1..Len(openaiMessages) :
              ollamaMessages[k].content =
                  CASE openaiMessages[k].content.kind = "string" ->
                          openaiMessages[k].content.text
                    [] openaiMessages[k].content.kind = "array" ->
                          SpaceSeparated(SelectSeq(
                              TextsOfTextParts(openaiMessages[k].content.parts),
                              IsNonEmptyText))
                    [] OTHER -> << >>

C30_Witness ==
    /\ Translated
    /\ Len(openaiMessages) = 2
    /\ openaiMessages[1].role = "user"
    /\ openaiMessages[1].content =
          ArrayContent(<< TextPart(<< "a" >>), ImagePart, TextPart(<< "b" >>) >>)
    /\ ollamaMessages[1] = [ role |-> "user", content |-> << "a", SPACE, "b" >> ]
    /\ openaiMessages[2].content = NullContent
    /\ ollamaMessages[2] = [ role |-> openaiMessages[2].role, content |-> << >> ]


(***************************************************************************)
(* The fallback of the streaming pipeline and the splitting of the         *)
(* upstream body into reads                                                *)
(***************************************************************************)
IsPlaceholder(c) == c = ContentChunk(PlaceholderText)

\* a parsable frame of the body carries the completion flag
FlagInBody == \E i \in 1..Len(ParsedFrames(body)) : ParsedFrames(body)[i].done

TranslatedChunks(texts) == [ i \in 1..Len(texts) |-> ContentChunk(texts[i]) ]

\* C32: the placeholder chunk is emitted exactly when the upstream body ended
\* with no completion flag seen and no content chunk emitted (for a consumer
\* that has not cancelled); it is emitted at most once, before the terminal
\* chunk; when content was sent, the fallback emits only the terminal chunk
\* and the sentinel.
C32_PlaceholderOnlyWhenSilent ==
    /\ Cardinality({ i \in 1..Len(emitted) : IsPlaceholder(emitted[i]) }) <= 1
    /\ \A i \in 1..Len(emitted) :
          IsPlaceholder(emitted[i]) =>
              /\ \A j \in 1..i : ~IsFinish(emitted[j])
              /\ emitted = SubSeq(emitted, 1, i) \o << FinalChunk, Sentinel >>
              /\ pc = "done" /\ upstream = "ok" /\ ~readFailed /\ pos = Len(body)
              /\ ~FlagInBody
              /\ TranslatedContents(emitted) = << >>
    /\ (CompletedRun /\ ~FlagInBody) =>
          IF ExpectedContents(body) = << >>
          THEN emitted = << RoleChunk, ContentChunk(PlaceholderText), FinalChunk, Sentinel >>
          ELSE emitted = << RoleChunk >> \o TranslatedChunks(ExpectedContents(body))
                             \o << FinalChunk, Sentinel >>

\* the upstream sent a malformed line only and closed
C32_Witness ==
    /\ CompletedRun
    /\ body = MalformedLine \o << NL >>
    /\ outState = "closed"
    /\ delivered = << RoleChunk, ContentChunk(PlaceholderText), FinalChunk, Sentinel >>

\* the pipeline run on the bytes received so far, in one read
RunPrefix(text) == ProcessRead(WriteChunk(FreshLocals, RoleChunk), text)

\* C33: what the pipeline has emitted, and the partial line it carries, depend
\* on the bytes received so far and not on how the reads cut them; a finished
\* run has emitted what the run on the whole body in one read emits.
C33_SplitIndependent ==
    /\ (pc = "read" /\ ~cancelled) =>
          /\ emitted = RunPrefix(SubSeq(body, 1, pos)).emitted
          /\ buffer = RunPrefix(SubSeq(body, 1, pos)).buffer
    /\ CompletedRun => emitted = RunWhole(body).emitted

\* the first frame arrived cut in two and was translated once; the second is
\* in the buffer, cut
C33_Witness ==
    /\ pc = "read"
    /\ ~cancelled
    /\ body = EncodeFrame("a", FALSE) \o << NL >> \o EncodeFrame("b", TRUE) \o << NL >>
    /\ pos = 7
    /\ buffer = << "{", "b" >>
    /\ emitted = << RoleChunk, ContentChunk("a") >>


(***************************************************************************)
(* Whitespace content in the non-streaming chat handler                    *)
(***************************************************************************)
IsWhitespaceOnly(text) == text # << >> /\ \A i \in 1..Len(text) : text[i] = SP

\* C34: without tools and without json_object, backend content made of
\* whitespace only is replaced by the placeholder, as empty content is.
C34_WhitespaceReplaced ==
    (AnsweredOk /\ chatReq.tools = "absent" /\ ~chatReq.json_object
        /\ IsWhitespaceOnly(BackendContent)) =>
        chatResponse.content = PlaceholderContent


(***************************************************************************)
(* The remote list and the allowlist                                       *)
(***************************************************************************)
\* C38: whatever the remote backend lists, the unified listing holds no entry
\* of the remote backend whose name is outside the remote allowlist.
C38_RemoteEntriesAllowlisted ==
    Listed =>
        \A i \in 1..Len(listing.models) :
            listing.models[i].source = "remote" => Allowlisted(listing.models[i].name)

\* the remote backend lists an allowlisted model and one the gateway is not
\* configured to route to
C38_Witness ==
    /\ Listed
    /\ REMOTE_MODELS = ReferenceModels
    /\ localData.outcome = "ok" /\ localData.models = << >>
    /\ remoteData.outcome = "ok"
    /\ remoteData.models = << [ name |-> "llama3", source |-> "remote" ],
                              [ name |-> "gpt-oss:120b", source |-> "remote" ] >>
    /\ listing.models = << [ name |-> "gpt-oss:120b", source |-> "remote" ] >>


Stage == CASE pc = "call" -> 3 [] pc = "text" -> 2 [] pc = "read" -> 1 [] OTHER -> 0

\* one step of the pipeline: start() moves on, or a read consumes upstream bytes
PipelineAdvances ==
    \/ Stage' < Stage
    \/ Stage' = Stage /\ pos' > pos

\* one step of the client side: a chunk leaves the queue, or the client cancels
ClientAdvances ==
    /\ pc' = pc
    /\ pos' = pos
    /\ \/ Len(queue') < Len(queue)
       \/ cancelled' /\ ~cancelled

StreamIds == { 1, 2 }

\* generateId(): 'chatcmpl-' and a random suffix
CompletionIds == { "chatcmpl-p", "chatcmpl-q" }

PairModels == { "llama3", "gpt-oss:120b" }

\* two frames with a completion flag, and a frame followed by a cut one
PairBodies ==
    { JoinLines(<< EncodeFrame("a", FALSE), EncodeFrame("b", TRUE) >>),
      EncodeFrame("b", FALSE) \o << NL >> \o MalformedLine }

\* the variables start() of stream i closes over, read through another stream's buffer
LocalsOfSharedBuffer(i) ==
    [ streams[i].locals EXCEPT !.buffer = streams[1].locals.buffer ]

\* the variables start() of stream i closes over
LocalsOf(i) == streams[i].locals

\* the chunk objects stream i builds carry its completionId and its model
Stamp(i, chunks) ==
    [ k \in 1..Len(chunks) |->
        [ id |-> streams[i].completionId, model |-> streams[i].model, data |-> chunks[k] ] ]

\* stream i goes on with the locals s after a read of n bytes: what s enqueued
\* since the step began goes on the wire of stream i
Settle(i, s, n, next, failed) ==
    LET before == Len(streams[i].locals.emitted)
    IN  streams' = [ streams EXCEPT
                       ![i] = [ streams[i] EXCEPT
                                  !.locals = s,
                                  !.wire = @ \o Stamp(i, SubSeq(s.emitted, before + 1, Len(s.emitted))),
                                  !.pos = @ + n,
                                  !.pc = next,
                                  !.readFailed = failed ] ]

\* while (!hasFinished && !controllerClosed), for stream i
PairLoopOrFinish(i, s, n) ==
    IF s.returned THEN Settle(i, s, n, "done", FALSE)
    ELSE IF ~s.hasFinished /\ ~s.controllerClosed THEN Settle(i, s, n, "read", FALSE)
    ELSE Settle(i, AfterLoop(s), n, "done", FALSE)

PairFrame ==
    UNCHANGED << streamVars, configVars, routeVars, directoryVars, chatVars, embedVars,
                 translateVars, dispatchVars >>

InitPair ==
    /\ StreamIdle
    /\ RouteIdle
    /\ DirectoryIdle
    /\ ChatIdle
    /\ EmbedIdle
    /\ TranslateIdle
    /\ DispatchIdle
    /\ ReferenceConfig
    /\ \E ids \in [ StreamIds -> CompletionIds ], models \in [ StreamIds -> PairModels ],
          bodies \in [ StreamIds -> PairBodies ] :
          \* the two requests are interchangeable: the first one's id and model are fixed
          /\ ids[1] = "chatcmpl-p"
          /\ models[1] = "llama3"
          /\ streams = [ i \in StreamIds |->
                          [ completionId |-> ids[i], model |-> models[i], body |-> bodies[i],
                            pos |-> 0, pc |-> "call", readFailed |-> FALSE,
                            locals |-> FreshLocals, wire |-> << >>, delivered |-> << >> ] ]

\* the upstream of stream i answers 2xx with a body: role chunk, then the first read
PairCallOk(i) ==
    /\ streams[i].pc = "call"
    /\ PairLoopOrFinish(i, WriteChunk(LocalsOf(i), RoleChunk), 0)
    /\ PairFrame

\* a read of stream i returns the next bytes of its body
PairReadChunk(i) ==
    /\ streams[i].pc = "read"
    /\ \E n \in 1..MaxReadLen :
          /\ streams[i].pos + n <= Len(streams[i].body)
          /\ IF LocalsOf(i).controllerClosed
             THEN Settle(i, AfterLoop(LocalsOf(i)), n, "done", FALSE)
             ELSE PairLoopOrFinish(i, ProcessRead(LocalsOf(i),
                                                  SubSeq(streams[i].body, streams[i].pos + 1,
                                                         streams[i].pos + n)), n)
    /\ PairFrame

\* a read of stream i reports the end of its body
PairReadDone(i) ==
    /\ streams[i].pc = "read"
    /\ streams[i].pos = Len(streams[i].body)
    /\ Settle(i, AfterLoop(LocalsOf(i)), 0, "done", FALSE)
    /\ PairFrame

\* a read of stream i throws
PairReadFails(i) ==
    /\ streams[i].pc = "read"
    /\ Settle(i, CatchError(LocalsOf(i), ReadMessage), 0, "done", TRUE)
    /\ PairFrame

\* the HTTP layer takes the next chunk of stream i for its client
PairConsumerRead(i) ==
    /\ streams[i].locals.outState = "readable"
    /\ streams[i].locals.queue # << >>
    /\ LET s == streams[i].locals
       IN  streams' = [ streams EXCEPT
                          ![i] = [ streams[i] EXCEPT
                                     !.delivered = Append(@, streams[i].wire[Len(@) + 1]),
                                     !.locals = [ s EXCEPT
                                                    !.queue = Tail(@),
                                                    !.outState =
                                                        IF s.closeRequested /\ Tail(s.queue) = << >>
                                                        THEN "closed" ELSE @ ] ] ]
    /\ PairFrame

NextPair ==
    \/ \E i \in StreamIds : PairCallOk(i)
    \/ \E i \in StreamIds : PairReadChunk(i)
    \/ \E i \in StreamIds : PairReadDone(i)
    \/ \E i \in StreamIds : PairReadFails(i)
    \/ \E i \in StreamIds : PairConsumerRead(i)

SpecPair == InitPair /\ [][NextPair]_vars

\* what stream i emits when its request is the only one: its body read through,
\* or read up to the failed read
Alone(i) ==
    IF streams[i].readFailed
    THEN CatchError(RunPrefix(SubSeq(streams[i].body, 1, streams[i].pos)), ReadMessage)
    ELSE RunWhole(streams[i].body)

\* C40: for any interleaving of two concurrent streaming requests, each
\* consumer receives exactly the chunk sequence it would receive if its
\* request ran alone, every chunk carrying its own completion id and requested
\* model: between reads the buffer and the flags of a stream are those of its
\* own body read so far, whatever the other stream has done.
C40_StreamsIsolated ==
    \A i \in StreamIds :
       LET st == streams[i]
           sofar == RunPrefix(SubSeq(st.body, 1, st.pos))
       IN  /\ st.pc = "read" =>
                 /\ st.locals.buffer = sofar.buffer
                 /\ st.locals.hasFinished = sofar.hasFinished
                 /\ st.locals.hasContentBeenSent = sofar.hasContentBeenSent
                 /\ st.locals.controllerClosed = sofar.controllerClosed
                 /\ st.wire = Stamp(i, sofar.emitted)
           /\ st.pc = "done" => st.wire = Stamp(i, Alone(i).emitted)
           /\ st.delivered = SubSeq(st.wire, 1, Len(st.delivered))
           /\ (st.pc = "done" /\ st.locals.queue = << >>) =>
                 /\ st.delivered = Stamp(i, Alone(i).emitted)
                 /\ st.locals.outState = "closed"
           /\ \A k \in 1..Len(st.delivered) :
                 st.delivered[k].id = st.completionId /\ st.delivered[k].model = st.model

\* both streams are between reads, each holding a different partial line, and
\* the first client has already received a content chunk
C40_Witness ==
    /\ streams[1].pc = "read" /\ streams[2].pc = "read"
    /\ streams[1].completionId # streams[2].completionId
    /\ streams[1].model # streams[2].model
    /\ streams[1].locals.buffer = << "{", "b" >>
    /\ streams[2].locals.buffer = << "{" >>
    /\ Len(streams[1].delivered) = 2
    /\ streams[1].delivered[2].data = ContentChunk("a")
    /\ streams[2].delivered = << >>


(***************************************************************************)
(* The request dispatcher: handleChatCompletions from the request to the   *)
(* response, with the checks it makes, the listing it asks the backends    *)
(* for, the backend request it builds and the call it makes.               *)
(***************************************************************************)
AuthHeaders == { "absent", "notBearer", "emptyToken", "bearer" }

StopString == [ kind |-> "string", text |-> "x", items |-> << >> ]
StopArray == [ kind |-> "array", text |-> "", items |-> << "x", "y" >> ]

\* requests that differ in what each check looks at
CheckedBodies ==
    { [ authorization |-> a, parses |-> p, hasModel |-> m # "", model |-> m, messages |-> shape,
        stream |-> st, temperature |-> t, top_p |-> Missing, max_tokens |-> Missing, n |-> n,
        frequency_penalty |-> Missing, presence_penalty |-> Missing, stop |-> StopUndefined,
        response_format |-> "absent" ] :
          a \in AuthHeaders, p \in BOOLEAN, m \in { "", "llama3", "gpt-oss:120b", "gpt-oss:20b" },
          shape \in { "ok", "empty" }, st \in BOOLEAN, t \in { Missing, 1, 3 },
          n \in { Missing, 1, 2 } }

\* requests that pass the first checks and differ in their sampling parameters
SampledBodies ==
    { [ authorization |-> "bearer", parses |-> TRUE, hasModel |-> TRUE, model |-> m,
        messages |-> "ok", stream |-> st, temperature |-> t, top_p |-> tp, max_tokens |-> mt,
        n |-> Missing, frequency_penalty |-> fp, presence_penalty |-> pp, stop |-> sp,
        response_format |-> rf ] :
          m \in { "llama3", "gpt-oss:120b" }, st \in BOOLEAN, t \in { Missing, 1, 3 },
          tp \in { Missing, 1, 2 }, mt \in { Missing, 0, 5 }, fp \in { Missing, 1 },
          pp \in { Missing, 1 }, sp \in { StopUndefined, StopString, StopArray },
          rf \in { "absent", "text", "json_object" } }

\* validateAuth: no header, or 'Bearer ' and a token
ValidateAuth(authorization) == authorization \in { "absent", "bearer" }

\* validateParameters: the parameter it reports, or null
ValidateParameters(b) ==
    IF b.temperature # Missing /\ (b.temperature < 0 \/ b.temperature > 2) THEN "temperature"
    ELSE IF b.top_p # Missing /\ (b.top_p < 0 \/ b.top_p > 1) THEN "top_p"
    ELSE IF b.max_tokens # Missing /\ b.max_tokens < 1 THEN "max_tokens"
    ELSE IF b.n # Missing /\ b.n # 1 THEN "n"
    ELSE Null

\* what a backend holds
Installed(host) ==
    IF host = "local" THEN << [ name |-> "llama3", source |-> "local" ] >>
    ELSE << [ name |-> "gpt-oss:120b", source |-> "remote" ] >>

\* the answer of a backend to GET /api/tags
TagsAnswer(host) ==
    IF backendUp[host] THEN [ outcome |-> "ok", models |-> Installed(host) ]
    ELSE [ outcome |-> "connerr", models |-> << >> ]

\* the parameters checked ahead of the model
CheckListedParametersFirst(b, available) ==
    IF ValidateParameters(b) # Null
    THEN [ status |-> 400, param |-> ValidateParameters(b) ]
    ELSE IF ~ValidateModel(b.model, available) THEN [ status |-> 404, param |-> "model" ]
    ELSE [ status |-> 0, param |-> "" ]

\* the checks made once the listing is there: the rejection, or status 0
CheckListed(b, available) ==
    IF ~ValidateModel(b.model, available) THEN [ status |-> 404, param |-> "model" ]
    ELSE IF ValidateParameters(b) # Null
    THEN [ status |-> 400, param |-> ValidateParameters(b) ]
    ELSE [ status |-> 0, param |-> "" ]

OptionKeys ==
    { "temperature", "num_predict", "top_p", "frequency_penalty", "presence_penalty", "stop" }

\* the request parameter an option is taken from
ParameterOf(key) == IF key = "num_predict" THEN "max_tokens" ELSE key

\* `x !== undefined`
IsSet(b, key) ==
    IF key = "stop" THEN b.stop.kind # "undefined" ELSE b[ParameterOf(key)] # Missing

\* Array.isArray(stop) ? stop : [stop]
StopList(stop) == IF stop.kind = "array" THEN stop.items ELSE << stop.text >>

\* an options bag with a temperature whatever the caller sent
BuildOptionsWithDefaults(b) ==
    [ key \in { k \in OptionKeys : IsSet(b, k) } \cup { "temperature" } |->
        IF key = "stop" THEN StopList(b.stop)
        ELSE IF b[ParameterOf(key)] = Missing THEN 1 ELSE b[ParameterOf(key)] ]

\* const options = {}; if (x !== undefined) options.x = x; ...
BuildOptions(b) ==
    [ key \in { k \in OptionKeys : IsSet(b, k) } |->
        IF key = "stop" THEN StopList(b.stop) ELSE b[ParameterOf(key)] ]

\* ollamaRequest, as chatCompletion puts it in the body of the call
BuildOllamaRequest(b) ==
    LET options == BuildOptions(b)
    IN  [ model |-> b.model,
          stream |-> b.stream /\ OLLAMA_STREAM,
          hasOptions |-> DOMAIN options # { },
          options |-> options,
          format |-> IF b.response_format = "json_object" THEN "json" ELSE "absent" ]

\* the backend chatCompletion calls for a model
ChatTarget(model) == IF Includes(ChatRemoteModels, model) THEN "remote" ELSE "local"

\* one frame with content and the completion flag
SampleBody == EncodeFrame("a", TRUE) \o << NL >>

DispatchError(status, type, param) ==
    [ status |-> status, kind |-> "json", type |-> type, param |-> param, events |-> << >> ]

DispatchFrame ==
    UNCHANGED << streamVars, configVars, routeVars, directoryVars, chatVars, embedVars,
                 translateVars, pairVars, chatBody, OLLAMA_STREAM >>

InitDispatch ==
    /\ StreamIdle
    /\ RouteIdle
    /\ DirectoryIdle
    /\ ChatIdle
    /\ EmbedIdle
    /\ TranslateIdle
    /\ PairIdle
    /\ ReferenceConfig
    /\ chatBody \in CheckedBodies \cup SampledBodies
    /\ OLLAMA_STREAM \in BOOLEAN
    /\ backendUp \in [ Hosts -> BOOLEAN ]
    /\ dpc = "recv"
    /\ listedModels = { }
    /\ ollamaRequest = NoOllamaRequest
    /\ dispatchCalls = << >>
    /\ dispatchResponse = NoDispatchResponse

\* handleChatCompletions up to the listing of the models
DispatchReceived ==
    /\ dpc = "recv"
    /\ IF ~ValidateAuth(chatBody.authorization)
       THEN /\ dispatchResponse' = DispatchError(401, "invalid_request_error", "")
            /\ dpc' = "done"
            /\ UNCHANGED dispatchCalls
       ELSE IF ~chatBody.parses
       THEN /\ dispatchResponse' = DispatchError(500, "internal_server_error", "")
            /\ dpc' = "done"
            /\ UNCHANGED dispatchCalls
       ELSE IF ValidateRequest(chatBody) # Null
       THEN /\ dispatchResponse' = DispatchError(400, "invalid_request_error",
                                                 ValidateRequest(chatBody))
            /\ dpc' = "done"
            /\ UNCHANGED dispatchCalls
       ELSE /\ dpc' = "models"
            /\ dispatchCalls' = << [ host |-> "local", path |-> << "api", "tags" >> ],
                                   [ host |-> "remote", path |-> << "api", "tags" >> ] >>
            /\ UNCHANGED dispatchResponse
    /\ UNCHANGED << backendUp, listedModels, ollamaRequest >>
    /\ DispatchFrame

\* the two listings have settled: model check, parameter check, translation
\* and the call of the backend; a streaming response is returned at once
DispatchModelsListed ==
    /\ dpc = "models"
    /\ LET modelsResponse == GetOpenAIModels(TagsAnswer("local"), TagsAnswer("remote"))
           availableModels_ == { modelsResponse[i].id : i \in 1..Len(modelsResponse) }
           rejection == CheckListed(chatBody, availableModels_)
           request == BuildOllamaRequest(chatBody)
       IN  /\ listedModels' = availableModels_
           /\ IF rejection.status # 0
              THEN /\ dispatchResponse' = DispatchError(rejection.status, "invalid_request_error",
                                                        rejection.param)
                   /\ dpc' = "done"
                   /\ UNCHANGED << ollamaRequest, dispatchCalls >>
              ELSE /\ ollamaRequest' = request
                   /\ dispatchCalls' = Append(dispatchCalls,
                                              [ host |-> ChatTarget(chatBody.model),
                                                path |-> << "api", "chat" >> ])
                   /\ dpc' = "chat"
                   /\ dispatchResponse' =
                          IF request.stream
                          THEN [ NoDispatchResponse EXCEPT !.status = 200, !.kind = "stream" ]
                          ELSE NoDispatchResponse
    /\ UNCHANGED backendUp
    /\ DispatchFrame

\* a backend stops accepting connections while the chat call is on its way
BackendLost ==
    /\ dpc = "chat"
    /\ \E host \in Hosts :
          /\ backendUp[host]
          /\ backendUp' = [ backendUp EXCEPT ![host] = FALSE ]
    /\ UNCHANGED << dpc, listedModels, ollamaRequest, dispatchCalls, dispatchResponse >>
    /\ DispatchFrame

\* the chat call settles: the backend answers, or the connection is refused
DispatchChatAnswered ==
    /\ dpc = "chat"
    /\ LET reached == backendUp[ChatTarget(chatBody.model)]
       IN  dispatchResponse' =
              IF ollamaRequest.stream
              THEN [ dispatchResponse EXCEPT
                       !.events = IF reached THEN RunWhole(SampleBody).emitted
                                  ELSE CatchError(FreshLocals, ConnectMessage).emitted ]
              ELSE IF reached
              THEN [ NoDispatchResponse EXCEPT !.status = 200, !.kind = "json" ]
              ELSE DispatchError(500, "internal_server_error", "")
    /\ dpc' = "done"
    /\ UNCHANGED << backendUp, listedModels, ollamaRequest, dispatchCalls >>
    /\ DispatchFrame

NextDispatch ==
    \/ DispatchReceived
    \/ DispatchModelsListed
    \/ BackendLost
    \/ DispatchChatAnswered

SpecDispatch == InitDispatch /\ [][NextDispatch]_vars

(***************************************************************************)
(* Vocabulary of the claims about the dispatcher.                          *)
(***************************************************************************)
ChatCalls == SelectSeq(dispatchCalls, LAMBDA call : call.path = << "api", "chat" >>)

AuthFails == chatBody.authorization \in { "notBearer", "emptyToken" }
ParseFails == ~chatBody.parses
ShapeFails == chatBody.model = "" \/ chatBody.messages # "ok"
ModelFails == chatBody.model \notin listedModels
ParameterOutOfRange ==
    \/ chatBody.temperature > 2
    \/ chatBody.top_p > 1
    \/ chatBody.max_tokens = 0
    \/ chatBody.n > 1

\* the first parameter out of range, in the order temperature, top_p, max_tokens, n
FirstOutOfRange ==
    CASE chatBody.temperature > 2 -> "temperature"
      [] chatBody.top_p > 1 -> "top_p"
      [] chatBody.max_tokens = 0 -> "max_tokens"
      [] OTHER -> "n"

Answered(status, param) ==
    /\ dispatchResponse.status = status
    /\ dispatchResponse.kind = "json"
    /\ dispatchResponse.param = param

\* C35: handleChatCompletions applies its checks in the order authorization
\* header, body parse, request shape, model existence, parameter ranges; it
\* answers with the error of the first check that fails, and a request that
\* any of the checks rejects causes no /api/chat call.
C35_FirstFailingCheck ==
    /\ dpc = "done" =>
          IF AuthFails THEN Answered(401, "") /\ dispatchCalls = << >>
          ELSE IF ParseFails THEN Answered(500, "") /\ dispatchCalls = << >>
          ELSE IF ShapeFails
          THEN /\ Answered(400, IF chatBody.model = "" THEN "model" ELSE "messages")
               /\ dispatchCalls = << >>
          ELSE IF ModelFails THEN Answered(404, "model") /\ ChatCalls = << >>
          ELSE IF ParameterOutOfRange THEN Answered(400, FirstOutOfRange) /\ ChatCalls = << >>
          ELSE Len(ChatCalls) = 1
    /\ ChatCalls # << >> =>
          ~(AuthFails \/ ParseFails \/ ShapeFails \/ ModelFails \/ ParameterOutOfRange)

\* a request for a model no backend holds, with a temperature out of range as
\* well: the answer is the 404 of the model check, after the two listings
C35_Witness ==
    /\ dpc = "done"
    /\ chatBody.authorization = "bearer" /\ chatBody.parses /\ chatBody.messages = "ok"
    /\ chatBody.model = "gpt-oss:20b"
    /\ chatBody.temperature = 3
    /\ backendUp = [ h \in Hosts |-> TRUE ]
    /\ Answered(404, "model")
    /\ Len(dispatchCalls) = 2

RequestBuilt == dpc \in { "chat", "done" } /\ ChatCalls # << >>

\* C36: the backend request carries an option for a sampling parameter exactly
\* when the caller set that parameter, with the caller's value, and no options
\* bag when none was set; a `stop` given as one string is sent as a list of
\* that one string; the format hint "json" is set exactly when response_format
\* is json_object.
C36_OptionsAsSet ==
    RequestBuilt =>
       LET options == ollamaRequest.options
           Sent(key) == key \in DOMAIN options
       IN  /\ DOMAIN options \subseteq OptionKeys
           /\ Sent("temperature") <=> chatBody.temperature # Missing
           /\ Sent("temperature") => options["temperature"] = chatBody.temperature
           /\ Sent("top_p") <=> chatBody.top_p # Missing
           /\ Sent("top_p") => options["top_p"] = chatBody.top_p
           /\ Sent("num_predict") <=> chatBody.max_tokens # Missing
           /\ Sent("num_predict") => options["num_predict"] = chatBody.max_tokens
           /\ Sent("frequency_penalty") <=> chatBody.frequency_penalty # Missing
           /\ Sent("frequency_penalty") =>
                 options["frequency_penalty"] = chatBody.frequency_penalty
           /\ Sent("presence_penalty") <=> chatBody.presence_penalty # Missing
           /\ Sent("presence_penalty") => options["presence_penalty"] = chatBody.presence_penalty
           /\ Sent("stop") <=> chatBody.stop # StopUndefined
           /\ chatBody.stop = StopString => options["stop"] = << "x" >>
           /\ chatBody.stop = StopArray => options["stop"] = << "x", "y" >>
           /\ ollamaRequest.hasOptions <=> DOMAIN options # { }
           /\ ollamaRequest.format = "json" <=> chatBody.response_format = "json_object"
           /\ ollamaRequest.format \in { "json", "absent" }
           /\ ollamaRequest.model = chatBody.model

\* only max_tokens and a one-string stop were set, with the json_object format
C36_Witness ==
    /\ RequestBuilt
    /\ chatBody.temperature = Missing /\ chatBody.top_p = Missing
    /\ chatBody.frequency_penalty = Missing /\ chatBody.presence_penalty = Missing
    /\ chatBody.max_tokens = 5
    /\ chatBody.stop = StopString
    /\ chatBody.response_format = "json_object"
    /\ DOMAIN ollamaRequest.options = { "num_predict", "stop" }
    /\ ollamaRequest.options["stop"] = << "x" >>
    /\ ollamaRequest.format = "json"

\* the request passes every check that does not depend on the backends, and
\* names a model its backend holds
WellFormedFor(host) ==
    /\ ~AuthFails /\ ~ParseFails /\ ~ShapeFails /\ ~ParameterOutOfRange
    /\ \E k \in 1..Len(Installed(host)) : Installed(host)[k].name = chatBody.model
    /\ ChatTarget(chatBody.model) = host

\* C31: a streaming request whose target backend is unreachable is answered
\* with an event stream that carries the role chunk, an error content chunk,
\* the terminal chunk and the sentinel, and never with a non-stream error
\* response, also when the backend was unreachable when the models were listed.
C31_StreamedErrorWhenUnreachable ==
    \A host \in Hosts :
       (/\ dpc = "done"
        /\ WellFormedFor(host)
        /\ chatBody.stream /\ OLLAMA_STREAM
        /\ ~backendUp[host])
       => /\ dispatchResponse.kind = "stream"
          /\ dispatchResponse.status = 200
          /\ dispatchResponse.events =
                << RoleChunk, ErrorChunk(ConnectMessage), FinalChunk, Sentinel >>

====
